---- MODULE Spec2Model ----
(***************************************************************************)
(* A model of the particle migrator, the neighbour index algebra and the   *)
(* particle kernels of src/src/pusher.c and of the multigrid solver of     *)
(* src/src/multigrid.c.                                                    *)
(*                                                                         *)
(* The specifications of the module:                                       *)
(*   SpecAlg     the neighbour index algebra (pure functions of pusher.c)  *)
(*   SpecMG      mgAlloc / mgAllocSubGrids, setSolvers, setRestrictProlong *)
(*   Spec        puExtractEmigrantsND + puMigrate on a periodic 1-D ring   *)
(*               of processes exchanging MPI messages                      *)
(*   SpecExtract puExtractEmigrantsND on one process                       *)
(*   SpecVC      the statements of linearMGSolv / mgVCycle                 *)
(*   SpecSolve   linearMGSolv on the values of 2-D grids                   *)
(*   SpecPush3D  puAcc3D1 and puDistr3D1                                   *)
(*   SpecBnd     puBndPeriodic                                             *)
(*   SpecSweep   gaussSeidel3D                                             *)
(* C arrays are 0-based; the sequences below are 1-based, so the C element *)
(* x[d] is x[d+1] here.                                                    *)
(***************************************************************************)
EXTENDS Integers, Sequences, FiniteSets, TLC

VARIABLES
    setup,      \* Spec: topology, grid extent, thresholds, species, MPI send mode,
                \* and the particles of each species the populations start with
    pc,         \* Spec: where each process is in its round
    round,      \* Spec: the round each process is in
    a,          \* Spec: the counter of the receive loop of exchangeMigrants
    pop,        \* Spec: the Population of each process
    mpi,        \* Spec: the MpiInfo buffers and requests of each process
    chan,       \* Spec: the messages sent and not yet matched, per (source, dest)
    status,     \* Spec: what the last any-source receive of each process matched
    aborted,    \* Spec: the job was aborted (MPI error or crash)
    algInfo,    \* SpecAlg: the MpiInfo the algebra functions are called on
    algCall,    \* SpecAlg: the last call, its arguments and its results
    mgIni,      \* SpecMG: the configuration dictionary read by mgAlloc
    mgGrid,     \* SpecMG: trueSize of the finest grid passed to mgAlloc
    mg,         \* SpecMG: the outcome of mgAlloc
    vcycle,     \* SpecVC: linearMGSolv, its call stack and the steps it has taken
    fields,     \* SpecSolve: the values of mgRho, mgPhi, mgRes during linearMGSolv
    kernel      \* SpecPush3D, SpecBnd, SpecSweep: one call of a kernel and its arguments

migVars == <<setup, pc, round, a, pop, mpi, chan, status, aborted>>

\* the variables of the specifications of single kernels
restVars == <<vcycle, fields, kernel>>

vars == <<setup, pc, round, a, pop, mpi, chan, status, aborted,
          algInfo, algCall, mgIni, mgGrid, mg, restVars>>

(***************************************************************************)
(* Bounds of the model                                                     *)
(***************************************************************************)
MaxDims == 3
MaxRanks == 12
MaxLevels == 4

(***************************************************************************)
(* Arithmetic helpers                                                      *)
(***************************************************************************)
RECURSIVE Pow(_, _)
Pow(b, e) ==
    IF e = 0 THEN 1 ELSE b * Pow(b, e - 1)

RECURSIVE SeqProd(_, _)
SeqProd(s, k) ==
    IF k = 0 THEN 1 ELSE s[k] * SeqProd(s, k - 1)

RECURSIVE SeqsOver(_, _)
SeqsOver(S, n) ==
    IF n = 0 THEN {<< >>}
    ELSE {Append(t, x) : t \in SeqsOver(S, n - 1), x \in S}

(***************************************************************************)
(* Neighbour index algebra, pusher.c:547-598                               *)
(***************************************************************************)
\* mutant: the loop forgets neighbor /= 3, so every axis mirrors the digit of axis 0
RECURSIVE ReciprocalLoopNoDiv(_, _, _, _)
ReciprocalLoopNoDiv(d, nDims, neighbor, reciprocal) ==
    IF d >= nDims THEN reciprocal
    ELSE ReciprocalLoopNoDiv(d + 1, nDims, neighbor,
                              reciprocal + (2 - (neighbor % 3)) * Pow(3, d))

\* the loop over d of pusher.c:551-554
RECURSIVE ReciprocalLoop(_, _, _, _)
ReciprocalLoop(d, nDims, neighbor, reciprocal) ==
    IF d >= nDims THEN reciprocal
    ELSE ReciprocalLoop(d + 1, nDims, neighbor \div 3,
                        reciprocal + (2 - (neighbor % 3)) * Pow(3, d))

puNeighborToReciprocal(neighbor, nDims) ==
    ReciprocalLoop(0, nDims, neighbor, 0)

\* mpiInfo->nSubdomainsProd: the stride of axis d in the rank, the layout that
\* puRankToNeighbor decodes with rank % nSubdomains[d], rank /= nSubdomains[d]
nSubdomainsProdOf(nSubdomains) ==
    [d \in 1..Len(nSubdomains) |-> SeqProd(nSubdomains, d - 1)]

\* the loop over d of pusher.c:567-575
RECURSIVE NeighborToRankLoop(_, _, _, _)
NeighborToRankLoop(d, mpiInfo, neighbor, rank) ==
    IF d >= mpiInfo.nDims THEN rank
    ELSE LET n0 == (neighbor % 3) - 1
             n  == (mpiInfo.subdomain[d + 1] + n0 + mpiInfo.nSubdomains[d + 1])
                       % mpiInfo.nSubdomains[d + 1]
         IN  NeighborToRankLoop(d + 1, mpiInfo, neighbor \div 3,
                                rank + n * mpiInfo.nSubdomainsProd[d + 1])

puNeighborToRank(mpiInfo, neighbor) ==
    NeighborToRankLoop(0, mpiInfo, neighbor, 0)

\* mutant: the +1 that maps offset 0 to the centre digit 1 is left out
RECURSIVE RankToNeighborLoopNoCenter(_, _, _, _)
RankToNeighborLoopNoCenter(d, mpiInfo, rank, neighbor) ==
    IF d >= mpiInfo.nDims THEN neighbor
    ELSE LET n0 == rank % mpiInfo.nSubdomains[d + 1]
             n  == (n0 - mpiInfo.subdomain[d + 1] + mpiInfo.nSubdomains[d + 1])
                       % mpiInfo.nSubdomains[d + 1]
         IN  RankToNeighborLoopNoCenter(d + 1, mpiInfo,
                                        rank \div mpiInfo.nSubdomains[d + 1],
                                        neighbor + n * Pow(3, d))

\* the loop over d of pusher.c:586-594
RECURSIVE RankToNeighborLoop(_, _, _, _)
RankToNeighborLoop(d, mpiInfo, rank, neighbor) ==
    IF d >= mpiInfo.nDims THEN neighbor
    ELSE LET n0 == rank % mpiInfo.nSubdomains[d + 1]
             n  == (n0 - mpiInfo.subdomain[d + 1] + 1 + mpiInfo.nSubdomains[d + 1])
                       % mpiInfo.nSubdomains[d + 1]
         IN  RankToNeighborLoop(d + 1, mpiInfo, rank \div mpiInfo.nSubdomains[d + 1],
                                neighbor + n * Pow(3, d))

puRankToNeighbor(mpiInfo, rank) ==
    RankToNeighborLoop(0, mpiInfo, rank, 0)

\* MpiInfo of the process at subdomain coordinate `subdomain`
MpiInfoOf(nSubdomains, subdomain, nSpecies, thresholds) ==
    [nDims           |-> Len(nSubdomains),
     nSpecies        |-> nSpecies,
     thresholds      |-> thresholds,
     nSubdomains     |-> nSubdomains,
     nSubdomainsProd |-> nSubdomainsProdOf(nSubdomains),
     subdomain       |-> subdomain,
     nNeighbors      |-> Pow(3, Len(nSubdomains)),
     neighborhoodCenter |-> (Pow(3, Len(nSubdomains)) - 1) \div 2]

nRanksOf(nSubdomains) ==
    SeqProd(nSubdomains, Len(nSubdomains))

\* the fully populated Cartesian topologies within the bounds
Topologies ==
    UNION {{t \in SeqsOver(1..MaxRanks, D) : nRanksOf(t) <= MaxRanks} : D \in 1..MaxDims}

Subdomains(nSubdomains) ==
    {c \in SeqsOver(0..(MaxRanks - 1), Len(nSubdomains)) :
        \A d \in 1..Len(nSubdomains) : c[d] < nSubdomains[d]}

NoCall == [fn |-> "none"]

AlgIdle ==
    /\ algInfo = MpiInfoOf(<<1>>, <<0>>, 1, <<0, 1>>)
    /\ algCall = NoCall

MGIdle ==
    /\ mgIni = [nLevels |-> 0, nMGCycles |-> 0, preSmooth |-> "", postSmooth |-> "",
                coarseSolv |-> "", restrictor |-> "", prolongator |-> ""]
    /\ mgGrid = << >>
    /\ mg = [status |-> "none"]

RestIdle ==
    /\ vcycle = [kind |-> "idle"]
    /\ fields = [tracked |-> FALSE]
    /\ kernel = [called |-> "idle"]

MigIdle ==
    /\ setup = [nSubdomains |-> <<1>>]
    /\ pc = << >>
    /\ round = << >>
    /\ a = << >>
    /\ pop = << >>
    /\ mpi = << >>
    /\ chan = << >>
    /\ status = << >>
    /\ aborted = FALSE

InitAlg ==
    /\ MigIdle
    /\ \E t \in Topologies : \E c \in Subdomains(t) : algInfo = MpiInfoOf(t, c, 1, [k \in 1..(2 * Len(t)) |-> IF k <= Len(t) THEN 0 ELSE 1])
    /\ algCall = NoCall
    /\ MGIdle
    /\ RestIdle

CallNeighborToReciprocal ==
    /\ algCall = NoCall
    /\ \E n \in 0..(algInfo.nNeighbors - 1) :
          algCall' = [fn |-> "puNeighborToReciprocal", neighbor |-> n,
                      reciprocal |-> puNeighborToReciprocal(n, algInfo.nDims),
                      back |-> puNeighborToReciprocal(
                                   puNeighborToReciprocal(n, algInfo.nDims),
                                   algInfo.nDims)]
    /\ UNCHANGED <<restVars, algInfo, mgIni, mgGrid, mg, migVars>>

CallNeighborToRank ==
    /\ algCall = NoCall
    /\ \E n \in 0..(algInfo.nNeighbors - 1) :
          algCall' = [fn |-> "puNeighborToRank", neighbor |-> n,
                      rank |-> puNeighborToRank(algInfo, n)]
    /\ UNCHANGED <<restVars, algInfo, mgIni, mgGrid, mg, migVars>>

CallRankToNeighbor ==
    /\ algCall = NoCall
    /\ \E r \in 0..(nRanksOf(algInfo.nSubdomains) - 1) :
          algCall' = [fn |-> "puRankToNeighbor", rank |-> r,
                      neighbor |-> puRankToNeighbor(algInfo, r),
                      back |-> puNeighborToRank(algInfo, puRankToNeighbor(algInfo, r))]
    /\ UNCHANGED <<restVars, algInfo, mgIni, mgGrid, mg, migVars>>

NextAlg ==
    \/ CallNeighborToReciprocal
    \/ CallNeighborToRank
    \/ CallRankToNeighbor

SpecAlg == InitAlg /\ [][NextAlg]_vars

(***************************************************************************)
(* Emigrant extraction, pusher.c:322-370 (puExtractEmigrants3D, 256-318,   *)
(* is the same loop with nDims fixed to 3 and the classification unrolled) *)
(*                                                                         *)
(* pos and vel are the flat arrays of the Population: the C element        *)
(* pos[i*nDims+d] is pos[i*nDims+d+1] here.  Coordinates are integers: the *)
(* lattice of positions the model explores.                                *)
(***************************************************************************)
BoolToInt(b) ==
    IF b THEN 1 ELSE 0

\* the loop over d of pusher.c:348-356, for the particle in slot i
RECURSIVE classifyLoop(_, _, _, _, _, _)
classifyLoop(d, nDims, pos, i, thresholds, ne) ==
    IF d < 0 THEN ne
    ELSE classifyLoop(d - 1, nDims, pos, i, thresholds,
                      ne * 3 + 1
                        - BoolToInt(pos[i * nDims + d + 1] < thresholds[d + 1])
                        + BoolToInt(pos[i * nDims + d + 1] >= thresholds[nDims + d + 1]))

classify(pos, i, thresholds, nDims) ==
    classifyLoop(nDims - 1, nDims, pos, i, thresholds, 0)

\* the nDims coordinates of slot i of a flat array
slotOf(arr, i, nDims) ==
    [d \in 1..nDims |-> arr[i * nDims + d]]

\* slot i overwritten by slot j
copySlot(arr, i, j, nDims) ==
    [k \in 1..Len(arr) |->
        IF k > i * nDims /\ k <= (i + 1) * nDims THEN arr[j * nDims + (k - i * nDims)]
        ELSE arr[k]]

\* mutant: the emigrant is copied out and overwritten, but pop->iStop[s] is not
\* decremented
extractOne_KeepStop(st, s, i, pStop, ne, nDims, nSpecies) ==
    [pos        |-> copySlot(st.pos, i, pStop - 1, nDims),
     vel        |-> copySlot(st.vel, i, pStop - 1, nDims),
     iStop      |-> st.iStop,
     emigrants  |-> [st.emigrants EXCEPT ![ne + 1] =
                        @ \o slotOf(st.pos, i, nDims) \o slotOf(st.vel, i, nDims)],
     nEmigrants |-> [st.nEmigrants EXCEPT ![ne * nSpecies + s + 1] = @ + 1]]

\* pusher.c:358-366: the particle in slot i of species s leaves for neighbour ne
\* (pStop is the loop's own end, in particles)
extractOne(st, s, i, pStop, ne, nDims, nSpecies) ==
    [pos        |-> copySlot(st.pos, i, pStop - 1, nDims),
     vel        |-> copySlot(st.vel, i, pStop - 1, nDims),
     iStop      |-> [st.iStop EXCEPT ![s + 1] = @ - 1],
     emigrants  |-> [st.emigrants EXCEPT ![ne + 1] =
                        @ \o slotOf(st.pos, i, nDims) \o slotOf(st.vel, i, nDims)],
     nEmigrants |-> [st.nEmigrants EXCEPT ![ne * nSpecies + s + 1] = @ + 1]]

\* mutant: after an extraction the loop goes on to the next slot and does not
\* look at the particle it has just copied into slot i
RECURSIVE extractParticleLoop_NoRevisit(_, _, _, _, _)
extractParticleLoop_NoRevisit(st, s, i, pStop, mpiInfo) ==
    IF i >= pStop THEN st
    ELSE LET ne == classify(st.pos, i, mpiInfo.thresholds, mpiInfo.nDims)
         IN  IF ne /= mpiInfo.neighborhoodCenter
             THEN extractParticleLoop_NoRevisit(
                      extractOne(st, s, i, pStop, ne, mpiInfo.nDims, mpiInfo.nSpecies),
                      s, i + 1, pStop - 1, mpiInfo)
             ELSE extractParticleLoop_NoRevisit(st, s, i + 1, pStop, mpiInfo)

\* pusher.c:346-368: the loop over the slots of species s; after an extraction
\* pStop shrinks and the same slot is visited again
RECURSIVE extractParticleLoop(_, _, _, _, _)
extractParticleLoop(st, s, i, pStop, mpiInfo) ==
    IF i >= pStop THEN st
    ELSE LET ne == classify(st.pos, i, mpiInfo.thresholds, mpiInfo.nDims)
         IN  IF ne /= mpiInfo.neighborhoodCenter
             THEN extractParticleLoop(
                      extractOne(st, s, i, pStop, ne, mpiInfo.nDims, mpiInfo.nSpecies),
                      s, i, pStop - 1, mpiInfo)
             ELSE extractParticleLoop(st, s, i + 1, pStop, mpiInfo)

RECURSIVE extractSpeciesLoop(_, _, _, _)
extractSpeciesLoop(st, s, iStart, mpiInfo) ==
    IF s >= mpiInfo.nSpecies THEN st
    ELSE extractSpeciesLoop(
             extractParticleLoop(st, s, iStart[s + 1], st.iStop[s + 1], mpiInfo),
             s + 1, iStart, mpiInfo)

\* puExtractEmigrantsND: the population arrays, the emigrant buffers and the
\* counts after the call
puExtractEmigrantsND(population, mpiInfo) ==
    extractSpeciesLoop(
        [pos        |-> population.pos,
         vel        |-> population.vel,
         iStop      |-> population.iStop,
         emigrants  |-> [ne \in 1..mpiInfo.nNeighbors |-> << >>],
         nEmigrants |-> [k \in 1..(mpiInfo.nNeighbors * mpiInfo.nSpecies) |-> 0]],
        0, population.iStart, mpiInfo)

(***************************************************************************)
(* Immigrant shift and import, pusher.c:401-440                            *)
(***************************************************************************)
RECURSIVE alSumTo(_, _)
alSumTo(arr, n) ==
    IF n = 0 THEN 0 ELSE arr[n] + alSumTo(arr, n - 1)

alSum(arr) ==
    alSumTo(arr, Len(arr))

\* &arr[nSpecies*ne]: the nSpecies counts of neighbour ne
countsOf(arr, ne, nSpecies) ==
    [s \in 1..nSpecies |-> arr[ne * nSpecies + s]]

\* pusher.c:408-417; trueSize[d+2] is grid->trueSize[d+1]
RECURSIVE shiftLoop(_, _, _, _, _, _)
shiftLoop(d, nDims, immigrants, nImmigrantsTotal, ne, trueSize) ==
    IF d >= nDims THEN immigrants
    ELSE LET n     == (ne % 3) - 1
             shift == n * trueSize[d + 2]
         IN  shiftLoop(d + 1, nDims,
                 [k \in 1..Len(immigrants) |->
                     IF /\ (k - 1) % (2 * nDims) = d
                        /\ (k - 1) \div (2 * nDims) < nImmigrantsTotal
                     THEN immigrants[k] + shift
                     ELSE immigrants[k]],
                 nImmigrantsTotal, ne \div 3, trueSize)

shiftImmigrants(immigrants, nImmigrants, ne, nSpecies, nDims, trueSize) ==
    shiftLoop(0, nDims, immigrants, alSum(countsOf(nImmigrants, ne, nSpecies)),
              ne, trueSize)

\* pusher.c:427-438.  cursor is the offset of `particles` in doubles.  Nothing
\* keeps the writes inside the allocation (the TODO of pusher.c:425): a write
\* past the end of pos/vel lands in the memory behind the array, which the model
\* keeps as further cells of the sequence.
RECURSIVE importLoop(_, _, _, _, _, _, _)
importLoop(s, st, particles, cursor, nParticles, nSpecies, nDims) ==
    IF s >= nSpecies THEN st
    ELSE LET n    == nParticles[s + 1]
             cnt  == IF n > 0 THEN n ELSE 0
             base == st.iStop[s + 1]
             top  == IF cnt > 0 /\ (base + cnt) * nDims > Len(st.pos)
                     THEN (base + cnt) * nDims ELSE Len(st.pos)
             put(arr, off) ==
                 [k \in 1..top |->
                     LET slot == (k - 1) \div nDims
                         d    == (k - 1) % nDims
                     IN  IF slot >= base /\ slot < base + cnt
                         THEN particles[cursor + (slot - base) * 2 * nDims + off + d + 1]
                         ELSE IF k <= Len(arr) THEN arr[k] ELSE 0]
         IN  importLoop(s + 1,
                        [pos   |-> put(st.pos, 0),
                         vel   |-> put(st.vel, nDims),
                         iStop |-> [st.iStop EXCEPT ![s + 1] = base + n]],
                        particles, cursor + cnt * 2 * nDims,
                        nParticles, nSpecies, nDims)

importParticles(population, particles, nParticles, nSpecies, nDims) ==
    importLoop(0, [pos |-> population.pos, vel |-> population.vel,
                   iStop |-> population.iStop],
               particles, 0, nParticles, nSpecies, nDims)

(***************************************************************************)
(* The processes of the ring and their messages                            *)
(***************************************************************************)
nSpecies == 2
TrueSize == 2
NAlloc == 1
MaxParticles == 2
MaxRounds == 2

RingTopologies == {<<1>>, <<2>>, <<3>>}

Ranks ==
    0..(nRanksOf(setup.nSubdomains) - 1)

\* the subdomain coordinate of a rank (the layout puRankToNeighbor decodes)
SubdomainOf(nSubdomains, rank) ==
    [d \in 1..Len(nSubdomains) |->
        (rank \div SeqProd(nSubdomains, d - 1)) % nSubdomains[d]]

InfoOf(p) ==
    MpiInfoOf(setup.nSubdomains, SubdomainOf(setup.nSubdomains, p),
              setup.nSpecies, setup.thresholds)

\* A long of the count message read as a double: the counts are small and
\* non-negative, so the IEEE-754 pattern is zero or a subnormal (c * 2^-1074),
\* which is 0 on the lattice of positions of the model.
LongBitsAsDouble(c) ==
    0

\* what stands for a count of 2^52 or more
HugeLong ==
    Pow(2, 20)

\* A double of a body message read as a long: 0.0 is 0; any other lattice value
\* has a non-zero exponent field, so the long is at least 2^52 in magnitude and has
\* the sign of the double.
DoubleBitsAsLong(x) ==
    IF x = 0 THEN 0 ELSE IF x > 0 THEN HugeLong ELSE 0 - HugeLong

\* pusher.c:384-393 and 454-462: the MPI_Isend of every non-centre neighbour, in
\* the order of the loop.  The message keeps, beside its tag and data, the
\* neighbour index of its send request, its round and the per-species counts of
\* the particles it carries.
postOne(ch, p, ne, mpiInfo, kind, buffers) ==
    LET rank       == puNeighborToRank(mpiInfo, ne)
        reciprocal == puNeighborToReciprocal(ne, mpiInfo.nDims)
        nEmigrants == countsOf(buffers.nEmigrants, ne, mpiInfo.nSpecies)
        length     == alSum(nEmigrants) * 2 * mpiInfo.nDims
        m == [tag   |-> reciprocal,
              kind  |-> kind,
              data  |-> IF kind = "count" THEN nEmigrants
                        ELSE [k \in 1..length |-> buffers.emigrants[ne + 1][k]],
              ne    |-> ne,
              round |-> buffers.round,
              nPer  |-> IF kind = "count"
                        THEN [k \in 1..mpiInfo.nSpecies |-> 0]
                        ELSE nEmigrants]
    IN  [ch EXCEPT ![<<p, rank>>] = Append(@, m)]

RECURSIVE postSends(_, _, _, _, _, _)
postSends(ch, p, ne, mpiInfo, kind, buffers) ==
    IF ne >= mpiInfo.nNeighbors THEN ch
    ELSE IF ne = mpiInfo.neighborhoodCenter
         THEN postSends(ch, p, ne + 1, mpiInfo, kind, buffers)
    ELSE postSends(postOne(ch, p, ne, mpiInfo, kind, buffers),
                   p, ne + 1, mpiInfo, kind, buffers)

\* the index of the first message of a channel with the tag, 0 when there is none
RECURSIVE firstWithTag(_, _, _)
firstWithTag(msgs, tag, k) ==
    IF k > Len(msgs) THEN 0
    ELSE IF msgs[k].tag = tag THEN k
    ELSE firstWithTag(msgs, tag, k + 1)

removeAt(msgs, k) ==
    [j \in 1..(Len(msgs) - 1) |-> IF j < k THEN msgs[j] ELSE msgs[j + 1]]

\* MPI_Waitall on the send requests: a standard-mode send completes when it is
\* matched, or before that when the MPI library buffers it (setup.eager).
\* send[neighborhoodCenter] is never started and is taken to be MPI_REQUEST_NULL.
sendsComplete(p, kind) ==
    \/ setup.eager
    \/ \A q \in Ranks : \A k \in 1..Len(chan[<<p, q>>]) :
          ~(chan[<<p, q>>][k].kind = kind /\ chan[<<p, q>>][k].round = round[p])

NoStatus == [kind |-> "none"]

\* the values a cell of the receive buffer may hold from earlier use
StaleValues == (0 - TrueSize)..TrueSize

(***************************************************************************)
(* Actions of process p                                                    *)
(***************************************************************************)

\* puMove, pusher.c:25-41: the loop over the species adds vel to pos once for
\* every species whose interval [iStart, iStop) holds the element
puMove(p) ==
    /\ ~aborted
    /\ pc[p] = "move"
    /\ pop' = [pop EXCEPT ![p].pos =
                  [k \in 1..Len(@) |->
                      @[k] + pop[p].vel[k] * Cardinality(
                          {s \in 1..setup.nSpecies :
                              /\ (k - 1) \div setup.nDims >= pop[p].iStart[s]
                              /\ (k - 1) \div setup.nDims < pop[p].iStop[s]})]]
    /\ pc' = [pc EXCEPT ![p] = "extract"]
    /\ UNCHANGED <<restVars, algInfo, algCall, mgIni, mgGrid, mg, setup, round, a, mpi, chan, status, aborted>>

\* puExtractEmigrantsND, pusher.c:322-370
Extract(p) ==
    /\ ~aborted
    /\ pc[p] = "extract"
    /\ LET st == puExtractEmigrantsND(pop[p], InfoOf(p))
       IN  /\ pop' = [pop EXCEPT ![p].pos = st.pos, ![p].vel = st.vel,
                                 ![p].iStop = st.iStop]
           /\ mpi' = [mpi EXCEPT ![p].emigrants = st.emigrants,
                                 ![p].nEmigrants = st.nEmigrants]
    /\ pc' = [pc EXCEPT ![p] = "exchangeN"]
    /\ UNCHANGED <<restVars, algInfo, algCall, mgIni, mgGrid, mg, setup, round, a, chan, status, aborted>>

\* exchangeNMigrants, pusher.c:384-393: every MPI_Isend and MPI_Irecv is posted
ExchangeNPost(p) ==
    /\ ~aborted
    /\ pc[p] = "exchangeN"
    /\ chan' = postSends(chan, p, 0, InfoOf(p), "count",
                         [nEmigrants |-> mpi[p].nEmigrants,
                          emigrants  |-> mpi[p].emigrants,
                          round      |-> round[p]])
    /\ mpi' = [mpi EXCEPT ![p].recv =
                  [ne \in 1..InfoOf(p).nNeighbors |->
                      IF ne - 1 = InfoOf(p).neighborhoodCenter THEN "null"
                      ELSE "active"]]
    /\ pc' = [pc EXCEPT ![p] = "waitSendN"]
    /\ UNCHANGED <<restVars, algInfo, algCall, mgIni, mgGrid, mg, setup, round, a, pop, status, aborted>>

\* MPI completes the posted MPI_Irecv of neighbour ne of process p with the
\* first message from that rank that carries the tag.  A body message (doubles)
\* longer than the nSpecies longs of the receive is MPI_ERR_TRUNCATE, which is
\* fatal; a shorter one is copied as it is.
MatchCount(p, ne) ==
    /\ ~aborted
    /\ mpi[p].recv[ne + 1] = "active"
    /\ LET q == puNeighborToRank(InfoOf(p), ne)
           k == firstWithTag(chan[<<q, p>>], ne, 1)
       IN  /\ k > 0
           /\ LET m == chan[<<q, p>>][k]
                  S == setup.nSpecies
              IN  /\ chan' = [chan EXCEPT ![<<q, p>>] = removeAt(@, k)]
                  /\ IF m.kind = "count"
                     THEN /\ mpi' = [mpi EXCEPT
                                 ![p].recv[ne + 1] = "null",
                                 ![p].nImmigrants =
                                     [j \in 1..Len(@) |->
                                         IF j > ne * S /\ j <= ne * S + S
                                         THEN m.data[j - ne * S] ELSE @[j]]]
                          /\ UNCHANGED aborted
                     ELSE IF Len(m.data) > S
                     THEN /\ aborted' = TRUE
                          /\ UNCHANGED mpi
                     ELSE /\ mpi' = [mpi EXCEPT
                                 ![p].recv[ne + 1] = "null",
                                 ![p].nImmigrants =
                                     [j \in 1..Len(@) |->
                                         IF j > ne * S /\ j <= ne * S + Len(m.data)
                                         THEN DoubleBitsAsLong(m.data[j - ne * S])
                                         ELSE @[j]]]
                          /\ UNCHANGED aborted
    /\ UNCHANGED <<restVars, algInfo, algCall, mgIni, mgGrid, mg, setup, pc, round, a, pop, status>>

\* exchangeNMigrants, pusher.c:395
WaitallSendN(p) ==
    /\ ~aborted
    /\ pc[p] = "waitSendN"
    /\ sendsComplete(p, "count")
    /\ pc' = [pc EXCEPT ![p] = "waitRecvN"]
    /\ UNCHANGED <<restVars, algInfo, algCall, mgIni, mgGrid, mg, setup, round, a, pop, mpi, chan, status, aborted>>

\* exchangeNMigrants, pusher.c:396
WaitallRecvN(p) ==
    /\ ~aborted
    /\ pc[p] = "waitRecvN"
    /\ \A ne \in 1..Len(mpi[p].recv) : mpi[p].recv[ne] = "null"
    /\ pc' = [pc EXCEPT ![p] = "exchangeM"]
    /\ UNCHANGED <<restVars, algInfo, algCall, mgIni, mgGrid, mg, setup, round, a, pop, mpi, chan, status, aborted>>

\* exchangeMigrants, pusher.c:454-462: the bodies are sent
ExchangeMPost(p) ==
    /\ ~aborted
    /\ pc[p] = "exchangeM"
    /\ chan' = postSends(chan, p, 0, InfoOf(p), "body",
                         [nEmigrants |-> mpi[p].nEmigrants,
                          emigrants  |-> mpi[p].emigrants,
                          round      |-> round[p]])
    /\ a' = [a EXCEPT ![p] = 0]
    /\ pc' = [pc EXCEPT ![p] = IF InfoOf(p).nNeighbors - 1 > 0 THEN "recv"
                               ELSE "waitSendM"]
    /\ UNCHANGED <<restVars, algInfo, algCall, mgIni, mgGrid, mg, setup, round, pop, mpi, status, aborted>>

\* exchangeMigrants, pusher.c:467-478: one pass of the receive loop.  MPI_Recv
\* with MPI_ANY_SOURCE and MPI_ANY_TAG matches the oldest unmatched message of
\* any one source.  The batch is then shifted and imported with the counts
\* nImmigrants holds for the tag.  Counts that reach past the buffer make the
\* loops run off it, and a negative iStop makes the import write in front of the
\* arrays: the process crashes.  An import past the nAlloc slots of pos and vel
\* is a heap overflow, after which the process either crashes (memoryFault) or
\* goes on.  The cells of `immigrants` behind the received payload hold what
\* earlier receives or the allocation left there: some lattice value g.
RecvAny(p) ==
    /\ ~aborted
    /\ pc[p] = "recv"
    /\ \E q \in Ranks : \E memoryFault \in BOOLEAN :
        /\ chan[<<q, p>>] /= << >>
        /\ LET m        == Head(chan[<<q, p>>])
               S        == setup.nSpecies
               D        == setup.nDims
               ne       == m.tag
               payload  == IF m.kind = "body" THEN m.data
                           ELSE [j \in 1..Len(m.data) |-> LongBitsAsDouble(m.data[j])]
               counts   == countsOf(mpi[p].nImmigrants, ne, S)
               crash    == \/ alSum(counts) >= HugeLong
                           \/ \E j \in 1..S : counts[j] >= HugeLong
                           \/ \E j \in 1..S : counts[j] > 0 /\ pop[p].iStop[j] < 0
               overflow == \E j \in 1..S :
                               /\ counts[j] > 0
                               /\ pop[p].iStop[j] + counts[j] > setup.nAlloc
               need     == alSum([j \in 1..S |-> IF counts[j] > 0 THEN counts[j] ELSE 0])
                               * 2 * D
           IN  /\ chan' = [chan EXCEPT ![<<q, p>>] = Tail(@)]
               /\ status' = [status EXCEPT ![p] =
                                [MPI_TAG |-> m.tag, MPI_SOURCE |-> q, kind |-> m.kind,
                                 round |-> m.round, ne |-> m.ne, nPer |-> m.nPer,
                                 counts |-> counts, inRound |-> round[p]]]
               /\ IF crash \/ (overflow /\ memoryFault)
                  THEN /\ aborted' = TRUE
                       /\ UNCHANGED <<pop, a, pc>>
                  ELSE \E g \in IF need > Len(payload) THEN StaleValues ELSE {0} :
                       LET immigrants == payload \o [j \in 1..(need - Len(payload)) |-> g]
                           shifted    == shiftImmigrants(immigrants, mpi[p].nImmigrants,
                                                         ne, S, D, setup.trueSize)
                           st         == importParticles(pop[p], shifted, counts, S, D)
                       IN  /\ pop' = [pop EXCEPT ![p].pos = st.pos, ![p].vel = st.vel,
                                                 ![p].iStop = st.iStop]
                           /\ a' = [a EXCEPT ![p] = @ + 1]
                           /\ pc' = [pc EXCEPT ![p] =
                                        IF a[p] + 1 < InfoOf(p).nNeighbors - 1
                                        THEN "recv" ELSE "waitSendM"]
                           /\ UNCHANGED aborted
    /\ UNCHANGED <<restVars, algInfo, algCall, mgIni, mgGrid, mg, setup, round, mpi>>

\* exchangeMigrants, pusher.c:480, and the return of puMigrate; the driver then
\* starts the next round
WaitallSendM(p) ==
    /\ ~aborted
    /\ pc[p] = "waitSendM"
    /\ sendsComplete(p, "body")
    /\ IF round[p] < MaxRounds
       THEN /\ round' = [round EXCEPT ![p] = @ + 1]
            /\ pc' = [pc EXCEPT ![p] = "move"]
       ELSE /\ pc' = [pc EXCEPT ![p] = "done"]
            /\ UNCHANGED round
    /\ status' = [status EXCEPT ![p] = NoStatus]
    /\ UNCHANGED <<restVars, algInfo, algCall, mgIni, mgGrid, mg, setup, a, pop, mpi, chan, aborted>>

(***************************************************************************)
(* Initial states of the ring                                              *)
(***************************************************************************)
Vels == {-1, 1}

\* a particle put into species s of process p, inside the subdomain
Placements(P) ==
    [p : 0..(P - 1), s : 0..(nSpecies - 1), x : 0..(TrueSize - 1), v : Vels]

\* The ring of three processes, the only one with two distinct neighbours per
\* process, is explored with one particle less.
MaxParticlesOn(P) ==
    IF P >= 3 THEN MaxParticles - 1 ELSE MaxParticles

\* The placements of at most MaxParticlesOn(P) particles that fit the slots.  A
\* ring looks the same from every process, so the first particle is put on
\* process 0.
PlacementSeqs(P) ==
    {ps \in UNION {SeqsOver(Placements(P), k) : k \in 0..MaxParticlesOn(P)} :
        /\ ps /= << >> => ps[1].p = 0
        /\ \A p \in 0..(P - 1) : \A s \in 0..(nSpecies - 1) :
              Cardinality({k \in 1..Len(ps) : ps[k].p = p /\ ps[k].s = s}) <= NAlloc}

\* the particles of ps placed in (p, s), in order
RECURSIVE placedIn(_, _, _)
placedIn(ps, p, s) ==
    IF ps = << >> THEN << >>
    ELSE IF Head(ps).p = p /\ Head(ps).s = s
         THEN <<Head(ps)>> \o placedIn(Tail(ps), p, s)
    ELSE placedIn(Tail(ps), p, s)

\* the Population of process p: species s owns the slots [s*NAlloc, (s+1)*NAlloc)
PopulationOf(ps, p) ==
    LET live(s) == placedIn(ps, p, s)
        cell(k, f) ==
            LET s == (k - 1) \div NAlloc
                j == (k - 1) % NAlloc
            IN  IF j < Len(live(s)) THEN live(s)[j + 1][f] ELSE 0
    IN  [pos    |-> [k \in 1..(nSpecies * NAlloc) |-> cell(k, "x")],
         vel    |-> [k \in 1..(nSpecies * NAlloc) |-> cell(k, "v")],
         iStart |-> [s \in 1..nSpecies |-> (s - 1) * NAlloc],
         iStop  |-> [s \in 1..nSpecies |-> (s - 1) * NAlloc + Len(live(s - 1))]]

\* the buffers and requests of an MpiInfo with nNeighbors neighbours
MpiBuffers(nNeighbors) ==
    [nEmigrants  |-> [k \in 1..(nNeighbors * nSpecies) |-> 0],
     nImmigrants |-> [k \in 1..(nNeighbors * nSpecies) |-> 0],
     emigrants   |-> [ne \in 1..nNeighbors |-> << >>],
     recv        |-> [ne \in 1..nNeighbors |-> "null"]]

\* The thresholds are configuration.  Beside the subdomain's own bounds, 0 and
\* trueSize, the rings of one and two processes are explored with a lower
\* threshold inside the subdomain.
ThresholdsOn(P) ==
    IF P >= 3 THEN {<<0, TrueSize>>} ELSE {<<0, TrueSize>>, <<1, TrueSize>>}

Init ==
    /\ \E t \in RingTopologies : \E e \in BOOLEAN :
       \E th \in ThresholdsOn(nRanksOf(t)) :
       \E ps \in PlacementSeqs(nRanksOf(t)) :
          LET P == 0..(nRanksOf(t) - 1)
          IN  /\ setup = [nSubdomains |-> t, nDims |-> 1, nSpecies |-> nSpecies,
                          trueSize |-> <<1, TrueSize>>,
                          nAlloc |-> nSpecies * NAlloc,
                          thresholds |-> th, eager |-> e,
                          nPlaced |-> [s \in 1..nSpecies |->
                              Cardinality({k \in 1..Len(ps) : ps[k].s = s - 1})]]
              /\ pop = [p \in P |-> PopulationOf(ps, p)]
              /\ pc = [p \in P |-> "move"]
              /\ round = [p \in P |-> 1]
              /\ a = [p \in P |-> 0]
              /\ mpi = [p \in P |-> MpiBuffers(3)]
              /\ chan = [c \in P \X P |-> << >>]
              /\ status = [p \in P |-> NoStatus]
    /\ aborted = FALSE
    /\ AlgIdle
    /\ MGIdle
    /\ RestIdle

Next ==
    \/ \E p \in Ranks : puMove(p)
    \/ \E p \in Ranks : Extract(p)
    \/ \E p \in Ranks : ExchangeNPost(p)
    \/ \E p \in Ranks : \E ne \in 0..2 : MatchCount(p, ne)
    \/ \E p \in Ranks : WaitallSendN(p)
    \/ \E p \in Ranks : WaitallRecvN(p)
    \/ \E p \in Ranks : ExchangeMPost(p)
    \/ \E p \in Ranks : RecvAny(p)
    \/ \E p \in Ranks : WaitallSendM(p)

Spec == Init /\ [][Next]_vars

(***************************************************************************)
(* puExtractEmigrantsND on its own: one process, one or two dimensions and *)
(* populations that put several particles of a species outside             *)
(***************************************************************************)
MaxLive == 3

\* where a particle may lie before the extraction: inside, or outside on one or
\* on both axes
PositionsIn(D) ==
    IF D = 1 THEN {<<0 - 1>>, <<0>>, <<TrueSize>>}
    ELSE {<<0, 0>>, <<0 - 1, 0>>, <<TrueSize, 0>>, <<0, TrueSize>>, <<0 - 1, 0 - 1>>}

\* the particles are listed species by species: the slots of a species are
\* filled in the order of the list, so other orders give the same populations
LivePlacements(D) ==
    {ps \in UNION {SeqsOver([s : 0..(nSpecies - 1), x : PositionsIn(D)], k) :
                      k \in 0..MaxLive} :
        \A k \in 1..(Len(ps) - 1) : ps[k].s <= ps[k + 1].s}

\* the k-th particle of ps that belongs to species s, 0 when there is none
RECURSIVE nthOf(_, _, _, _)
nthOf(ps, s, k, from) ==
    IF from > Len(ps) THEN 0
    ELSE IF ps[from].s = s
         THEN IF k = 1 THEN from ELSE nthOf(ps, s, k - 1, from + 1)
    ELSE nthOf(ps, s, k, from + 1)

\* The Population that holds the particles ps: species s owns the slots
\* [s*MaxLive, (s+1)*MaxLive); the velocity of a particle tells it from the others.
ExtractPopulationOf(ps, D) ==
    LET liveOf(s) == Cardinality({k \in 1..Len(ps) : ps[k].s = s})
        cell(j, f) ==
            LET i == (j - 1) \div D
                d == (j - 1) % D
                s == i \div MaxLive
                k == nthOf(ps, s, (i % MaxLive) + 1, 1)
            IN  IF k = 0 THEN 0
                ELSE IF f = "x" THEN ps[k].x[d + 1] ELSE 10 * k + d
    IN  [pos    |-> [j \in 1..(nSpecies * MaxLive * D) |-> cell(j, "x")],
         vel    |-> [j \in 1..(nSpecies * MaxLive * D) |-> cell(j, "v")],
         iStart |-> [s \in 1..nSpecies |-> (s - 1) * MaxLive],
         iStop  |-> [s \in 1..nSpecies |-> (s - 1) * MaxLive + liveOf(s - 1)]]

InitExtract ==
    /\ \E D \in 1..2 : \E ps \in LivePlacements(D) :
          /\ setup = [nSubdomains |-> [d \in 1..D |-> 1], nDims |-> D,
                      nSpecies |-> nSpecies,
                      trueSize |-> [d \in 1..(D + 1) |-> IF d = 1 THEN 1 ELSE TrueSize],
                      nAlloc |-> nSpecies * MaxLive,
                      thresholds |-> [d \in 1..(2 * D) |-> IF d <= D THEN 0 ELSE TrueSize],
                      eager |-> TRUE]
          /\ pop = [p \in {0} |-> ExtractPopulationOf(ps, D)]
          /\ mpi = [p \in {0} |-> MpiBuffers(Pow(3, D))]
    /\ pc = [p \in {0} |-> "extract"]
    /\ round = [p \in {0} |-> 1]
    /\ a = [p \in {0} |-> 0]
    /\ chan = [c \in {0} \X {0} |-> << >>]
    /\ status = [p \in {0} |-> NoStatus]
    /\ aborted = FALSE
    /\ AlgIdle
    /\ MGIdle
    /\ RestIdle

NextExtract ==
    \E p \in Ranks : Extract(p)

SpecExtract == InitExtract /\ [][NextExtract]_vars

\* the number of particles of species s (1-based) in the emigrant counts
RECURSIVE emigrantsOf(_, _, _, _)
emigrantsOf(nEmigrants, s, ne, S) ==
    IF ne < 0 THEN 0
    ELSE nEmigrants[ne * S + s] + emigrantsOf(nEmigrants, s, ne - 1, S)

\* C2: puExtractEmigrantsND lowers pop->iStop[s] of every species by the sum of
\* nEmigrants[ne*nSpecies+s] over all neighbours ne, and leaves pop->iStart
\* as it was.
C2_StopLoweredByEmigrants ==
    [][\A p \in Ranks :
          (pc[p] = "extract" /\ pc'[p] = "exchangeN") =>
              /\ pop'[p].iStart = pop[p].iStart
              /\ \A s \in 1..setup.nSpecies :
                    pop'[p].iStop[s] =
                        pop[p].iStop[s]
                          - emigrantsOf(mpi'[p].nEmigrants, s,
                                        Len(mpi'[p].emigrants) - 1, setup.nSpecies)]_vars

\* an extraction in two dimensions that took the only particle of the first
\* species out and left the particle of the second species where it was
C2_Witness ==
    /\ pc[0] = "exchangeN"
    /\ setup.nDims = 2
    /\ emigrantsOf(mpi[0].nEmigrants, 1, Len(mpi[0].emigrants) - 1, setup.nSpecies) = 1
    /\ emigrantsOf(mpi[0].nEmigrants, 2, Len(mpi[0].emigrants) - 1, setup.nSpecies) = 0
    /\ pop[0].iStop[1] = pop[0].iStart[1]
    /\ pop[0].iStop[2] = pop[0].iStart[2] + 1

\* the live particles of species s (1-based) on all processes
RECURSIVE liveTotalFrom(_, _)
liveTotalFrom(s, p) ==
    IF p \notin Ranks THEN 0
    ELSE pop[p].iStop[s] - pop[p].iStart[s] + liveTotalFrom(s, p + 1)

\* every process has returned from puMigrate of the same round and none has
\* extracted since
AllReturned ==
    \/ \A p \in Ranks : pc[p] = "done"
    \/ \E r \in 2..MaxRounds : \A p \in Ranks : pc[p] = "move" /\ round[p] = r

\* C21 as stated: particles are conserved globally.  When every process has
\* completed an extract-and-migrate round and the job has not been aborted,
\* the sum over all processes of iStop[s] - iStart[s] is, for every species
\* s, what it was before the first extraction, under every interleaving.
C21_ParticlesConserved ==
    (~aborted /\ AllReturned) =>
        \A s \in 1..setup.nSpecies : liveTotalFrom(s, 0) = setup.nPlaced[s]

\* the particles of the species before s (1-based) in a batch with the
\* per-species counts nPer
batchOffset(nPer, s) ==
    alSum([t \in 1..(s - 1) |-> nPer[t]])

\* the shift of shiftImmigrants along axis d (1-based) for neighbour index ne
shiftOf(ne, d) ==
    (((ne \div Pow(3, d - 1)) % 3) - 1) * setup.trueSize[d + 1]

\* the message process p takes in a step of its receive loop
receivedBy(p) ==
    chan[<<status'[p].MPI_SOURCE, p>>][1]

\* C20 as stated: every particle extracted as species s into emigrants[n] is
\* imported on the peer puNeighborToRank(n) into the interval of the same
\* species s, exactly once, with its velocity unchanged and its position changed
\* only by the shift of shiftImmigrants, the segments of the buffer being taken
\* in the order of the species.  When a pass of the receive loop takes a body
\* of emigrants, the body is addressed to the process, every species s grows
\* by the particles of s in the body and these stand at its end as they were
\* extracted, shifted; and no body that holds particles is left unreceived
\* once the process it was sent to has returned from puMigrate of that round.
C20_EmigrantsImportedOnce ==
    /\ [][\A p \in Ranks :
            (pc[p] = "recv" /\ a'[p] = a[p] + 1 /\ receivedBy(p).kind = "body") =>
                LET m  == receivedBy(p)
                    D  == setup.nDims
                IN  /\ puNeighborToRank(InfoOf(status'[p].MPI_SOURCE), m.ne) = p
                    /\ \A s \in 1..setup.nSpecies :
                          /\ pop'[p].iStop[s] = pop[p].iStop[s] + m.nPer[s]
                          /\ \A j \in 0..(m.nPer[s] - 1) : \A d \in 1..D :
                                LET slot == pop[p].iStop[s] + j
                                    k    == batchOffset(m.nPer, s) + j
                                IN  /\ pop'[p].vel[slot * D + d]
                                           = m.data[k * 2 * D + D + d]
                                    /\ pop'[p].pos[slot * D + d]
                                           = m.data[k * 2 * D + d] + shiftOf(m.tag, d)]_vars
    /\ [](~aborted =>
             \A p, q \in Ranks : \A k \in 1..Len(chan[<<q, p>>]) :
                 LET m == chan[<<q, p>>][k]
                 IN  (m.kind = "body" /\ alSum(m.nPer) > 0) =>
                         (pc[p] # "done" /\ round[p] <= m.round))

\* C18: when puExtractEmigrantsND returns, every particle left in
\* [iStart[s], iStop[s]) of every species s lies within the thresholds on every
\* axis (thresholds[d] <= pos[d] < thresholds[D+d]), so it is classified to
\* the centre neighbour: the particle copied from the last slot into the slot
\* of an emigrant is classified too, also when it is an emigrant itself and
\* when the emigrant is in the last live slot.
C18_RemainingAreCenter ==
    \A p \in Ranks :
        pc[p] = "exchangeN" =>
            \A s \in 1..setup.nSpecies :
                \A i \in 0..(Len(pop[p].pos) \div setup.nDims) :
                    (i >= pop[p].iStart[s] /\ i < pop[p].iStop[s]) =>
                        /\ classify(pop[p].pos, i, setup.thresholds, setup.nDims)
                               = InfoOf(p).neighborhoodCenter
                        /\ \A d \in 1..setup.nDims :
                              /\ setup.thresholds[d] <= pop[p].pos[i * setup.nDims + d]
                              /\ pop[p].pos[i * setup.nDims + d]
                                     < setup.thresholds[setup.nDims + d]

\* the first species held an emigrant, a particle that stays and a second
\* emigrant in its last slot: the second emigrant was copied over the first,
\* found there and replaced by the particle that stays
C18_Witness ==
    /\ pc[0] = "exchangeN"
    /\ setup.nDims = 2
    /\ emigrantsOf(mpi[0].nEmigrants, 1, Len(mpi[0].emigrants) - 1, setup.nSpecies) = 2
    /\ pop[0].iStop[1] = pop[0].iStart[1] + 1
    /\ pop[0].vel[1] = 20
    /\ pop[0].vel[2] = 21

(***************************************************************************)
(* Claims on the migration round                                           *)
(***************************************************************************)

\* process p has returned from puMigrate and has not moved its particles since
BetweenRounds(p) ==
    pc[p] \in {"move", "done"}

\* every process has completed at least one round
RoundComplete ==
    \A p \in Ranks : round[p] > 1 \/ pc[p] = "done"

\* the slots of the live particles of species s (1-based) of process p
LiveSlots(p, s) ==
    {i \in 0..(Len(pop[p].pos) \div setup.nDims) :
        i >= pop[p].iStart[s] /\ i < pop[p].iStop[s]}

\* C1 as stated: once a round of extraction and puMigrate has completed on every
\* process, every live particle of a process that has returned from puMigrate
\* has 0 <= pos[d] < trueSize[d+1] on every axis, whatever the thresholds are.
C1_PositionsInsideAfterRound ==
    RoundComplete =>
        \A p \in Ranks : BetweenRounds(p) =>
            \A s \in 1..setup.nSpecies : \A i \in LiveSlots(p, s) :
                \A d \in 1..setup.nDims :
                    /\ i * setup.nDims + d <= Len(pop[p].pos)
                    /\ pop[p].pos[i * setup.nDims + d] >= 0
                    /\ pop[p].pos[i * setup.nDims + d] < setup.trueSize[d + 1]

\* C3 as stated: when a body batch tagged n is shifted and imported,
\* nImmigrants holds, for every species, the number of particles of that
\* species the batch contains, for the current round.
C3_CountsMatchBatch ==
    \A p \in Ranks :
        status[p].kind = "body" =>
            /\ status[p].counts = status[p].nPer
            /\ status[p].round = status[p].inRound

\* C4 as stated: every message matched by the any-source receive is a body
\* message of the receiver's round, sent by the peer puNeighborToRank(n) from its
\* emigrants[reciprocal(n)] buffer, n being the received tag.
C4_AnyRecvMatchesBodyOfRound ==
    \A p \in Ranks :
        status[p].kind /= "none" =>
            /\ status[p].kind = "body"
            /\ status[p].round = status[p].inRound
            /\ status[p].MPI_SOURCE = puNeighborToRank(InfoOf(p), status[p].MPI_TAG)
            /\ status[p].ne = puNeighborToReciprocal(status[p].MPI_TAG, setup.nDims)

\* C5 as stated, as the absence of a stuck state: unless a process has crashed,
\* as long as some process has not returned from its last puMigrate some step
\* is possible, so no process blocks forever in a wait or in a receive.
C5_NoProcessStuck ==
    \/ aborted
    \/ \A p \in Ranks : pc[p] = "done"
    \/ ENABLED Next

\* C8 as stated: the per-species intervals stay ordered and disjoint, and the
\* last one ends within the capacity.
C8_IntervalsDisjoint ==
    \A p \in Ranks : \A s \in 1..setup.nSpecies :
        /\ pop[p].iStart[s] <= pop[p].iStop[s]
        /\ pop[p].iStop[s] <= (IF s < setup.nSpecies THEN pop[p].iStart[s + 1]
                               ELSE setup.nAlloc)

(***************************************************************************)
(* Multigrid construction, multigrid.c:99-166 and 256-301                  *)
(***************************************************************************)

\* A Grid descriptor: element 1 of each sequence is the leading axis
\* (trueSize[0] in C), elements 2..rank the spatial axes.
GridOf(trueSize, nGhostLayers) ==
    [rank         |-> Len(trueSize),
     trueSize     |-> trueSize,
     nGhostLayers |-> nGhostLayers,
     size         |-> [d \in 1..Len(trueSize) |->
                          IF d = 1 THEN trueSize[1]
                          ELSE trueSize[d] + nGhostLayers[d]
                                   + nGhostLayers[Len(trueSize) + d]]]

\* the body of the loop over q of mgAllocSubGrids: the level-q grid made from
\* the finest grid
subGrid(grid, q) ==
    GridOf([d \in 1..grid.rank |->
               IF d = 1 THEN grid.trueSize[1] ELSE grid.trueSize[d] \div (2 * q)],
           grid.nGhostLayers)

\* grids[0..nLevels): element q+1 is grids[q]
mgAllocSubGrids(grid, nLevels) ==
    [l \in 1..nLevels |-> IF l = 1 THEN grid ELSE subGrid(grid, l - 1)]

\* msg(ERROR, ...): the diagnostic is printed and the program terminates
msgERROR(what) ==
    [status |-> "fatal", error |-> what]

\* the condition of multigrid.c:278, trueSize[d+1] % (int) 2*nLevels, which C
\* parses as (trueSize[d+1] % 2) * nLevels
sizeCheckFails(trueSize, nLevels, d) ==
    (trueSize[d + 2] % 2) * nLevels /= 0

\* the function a smoother slot is set to by one if/else chain of setSolvers, or
\* the error the chain raises
solverOf(name, nDims) ==
    IF name = "gaussSeidel"
    THEN IF nDims = 2 THEN "gaussSeidel2D"
         ELSE IF nDims = 3 THEN "gaussSeidel3D"
         ELSE "errorDimension"
    ELSE IF name = "jacobian" THEN "jacobian"
    ELSE "errorName"

\* the function the restrictor slot is set to by setRestrictProlong, or the error
restrictorOf(name, rank) ==
    IF name = "halfWeight"
    THEN IF rank = 3 THEN "halfWeightRestrict2D"
         ELSE IF rank = 4 THEN "halfWeightRestrict3D"
         ELSE "errorDimension"
    ELSE "errorName"

\* the function the prolongator slot is set to by setRestrictProlong, or the error
prolongatorOf(name, rank) ==
    IF name = "bilinear"
    THEN IF rank = 3 THEN "bilinearProlong2D"
         ELSE IF rank = 4 THEN "bilinearProlong3D"
         ELSE "errorDimension"
    ELSE "errorName"

isError(fn) ==
    fn \in {"errorDimension", "errorName"}

\* setSolvers: the three slots in the order of the code; the first msg(ERROR)
\* ends the program
setSolvers(ini, multigrid) ==
    LET nDims == multigrid.grids[1].rank - 1
        pre   == solverOf(ini.preSmooth, nDims)
        post  == solverOf(ini.postSmooth, nDims)
        cs    == solverOf(ini.coarseSolv, nDims)
    IN  IF isError(pre) THEN msgERROR("preSmooth")
        ELSE IF isError(post) THEN msgERROR("postSmooth")
        ELSE IF isError(cs) THEN msgERROR("coarseSolv")
        ELSE [multigrid EXCEPT !.preSmooth = pre, !.postSmooth = post,
                               !.coarseSolv = cs]

\* setRestrictProlong
setRestrictProlong(ini, multigrid) ==
    LET rank == multigrid.grids[1].rank
        r    == restrictorOf(ini.restrictor, rank)
        pr   == prolongatorOf(ini.prolongator, rank)
    IN  IF isError(r) THEN msgERROR("restrictor")
        ELSE IF isError(pr) THEN msgERROR("prolongator")
        ELSE [multigrid EXCEPT !.restrictor = r, !.prolongator = pr]

\* a slot of the Multigrid that mgAlloc has not set (malloc'ed memory)
Unset ==
    "unset"

mgAlloc(ini, grid) ==
    LET nDims == grid.rank - 1
    IN  IF ini.nLevels = 0 THEN msgERROR("mgLevels")
        ELSE IF ini.nMGCycles = 0 THEN msgERROR("mgCycles")
        ELSE IF \E d \in 0..(nDims - 1) : sizeCheckFails(grid.trueSize, ini.nLevels, d)
             THEN msgERROR("trueSize")
        ELSE LET multigrid == [status      |-> "ok",
                               nLevels     |-> ini.nLevels,
                               nMGCycles   |-> ini.nMGCycles,
                               grids       |-> mgAllocSubGrids(grid, ini.nLevels),
                               preSmooth   |-> Unset,
                               postSmooth  |-> Unset,
                               coarseSolv  |-> Unset,
                               restrictor  |-> Unset,
                               prolongator |-> Unset]
                 solvers == setSolvers(ini, multigrid)
             IN  IF solvers.status = "fatal" THEN solvers
                 ELSE setRestrictProlong(ini, solvers)

\* extents of the finest grid tried by the model
TrueSizes == {1, 2, 3, 6, 24}

\* the values of modules:preSmooth, modules:postSmooth and modules:coarseSolv
\* tried by the model; "" is the default of an absent key
SmootherNames == {"gaussSeidel", "jacobian", ""}

\* the values of multigrid:restrictor tried by the model
RestrictorNames == {"halfWeight", ""}

\* the values of multigrid:prolongator tried by the model
ProlongatorNames == {"bilinear", ""}

\* one ghost layer on each side of every spatial axis, none on the leading axis
GhostLayersOf(rank) ==
    [i \in 1..(2 * rank) |-> IF i = 1 \/ i = rank + 1 THEN 0 ELSE 1]

FinestGrids ==
    {GridOf(<<1>> \o t, GhostLayersOf(Len(t) + 1)) :
        t \in UNION {SeqsOver(TrueSizes, D) : D \in 1..MaxDims}}

InitMG ==
    /\ mgIni \in [nLevels : 0..MaxLevels, nMGCycles : 0..1,
                   preSmooth : SmootherNames, postSmooth : SmootherNames,
                   coarseSolv : SmootherNames, restrictor : RestrictorNames,
                   prolongator : ProlongatorNames]
    /\ mgGrid \in FinestGrids
    /\ mg = [status |-> "none"]
    /\ AlgIdle
    /\ MigIdle
    /\ RestIdle

CallMgAlloc ==
    /\ mg.status = "none"
    /\ mg' = mgAlloc(mgIni, mgGrid)
    /\ UNCHANGED <<restVars, mgIni, mgGrid, algInfo, algCall, migVars>>

NextMG ==
    CallMgAlloc

SpecMG == InitMG /\ [][NextMG]_vars

(***************************************************************************)
(* Claims on the multigrid construction                                    *)
(***************************************************************************)

\* the documented invariant of the finest grid: every non-leading trueSize is
\* divisible by 2^(nLevels-1)
DivisibleFinestGrid ==
    \A d \in 2..mgGrid.rank : mgGrid.trueSize[d] % Pow(2, mgIni.nLevels - 1) = 0

\* C9 as stated, on the grids that satisfy the documented divisibility: on every
\* level q in [1, L) every non-leading extent is the level-0 extent divided by
\* 2^q (half of level q-1), and the leading extent is that of level 0.
C9_EachLevelHalves ==
    (mg.status = "ok" /\ DivisibleFinestGrid) =>
        \A q \in 1..(mg.nLevels - 1) : \A d \in 1..mgGrid.rank :
            mg.grids[q + 1].trueSize[d] =
                IF d = 1 THEN mgGrid.trueSize[1]
                ELSE mgGrid.trueSize[d] \div Pow(2, q)

\* C10 as stated: mgAlloc raises the grid-size error exactly when some
\* non-leading trueSize is not divisible by 2^(L-1).
C10_SizeErrorIffNotDivisible ==
    (mg.status /= "none" /\ mgIni.nLevels /= 0 /\ mgIni.nMGCycles /= 0) =>
        ((mg.status = "fatal" /\ mg.error = "trueSize")
            <=> \E d \in 2..mgGrid.rank :
                    mgGrid.trueSize[d] % Pow(2, mgIni.nLevels - 1) /= 0)

\* the names setSolvers and setRestrictProlong accept
ValidNames ==
    /\ mgIni.preSmooth \in {"gaussSeidel", "jacobian"}
    /\ mgIni.postSmooth \in {"gaussSeidel", "jacobian"}
    /\ mgIni.coarseSolv \in {"gaussSeidel", "jacobian"}
    /\ mgIni.restrictor = "halfWeight"
    /\ mgIni.prolongator = "bilinear"

AllSlotsSet ==
    /\ mg.preSmooth \in {"gaussSeidel2D", "gaussSeidel3D", "jacobian"}
    /\ mg.postSmooth \in {"gaussSeidel2D", "gaussSeidel3D", "jacobian"}
    /\ mg.coarseSolv \in {"gaussSeidel2D", "gaussSeidel3D", "jacobian"}
    /\ mg.restrictor \in {"halfWeightRestrict2D", "halfWeightRestrict3D"}
    /\ mg.prolongator \in {"bilinearProlong2D", "bilinearProlong3D"}

\* C11 as stated: mgAlloc is fatal whenever mgLevels is 0, mgCycles is 0 or one
\* of the five names is not supported; with valid values (non-zero levels and
\* cycles, supported names, a 2-D or 3-D grid divisible by 2^(L-1)) no error is
\* raised and the five slots are set.
C11_ConfigErrorsFatal ==
    mg.status /= "none" =>
        /\ (mgIni.nLevels = 0 \/ mgIni.nMGCycles = 0 \/ ~ValidNames)
                => mg.status = "fatal"
        /\ (/\ mgIni.nLevels /= 0
            /\ mgIni.nMGCycles /= 0
            /\ ValidNames
            /\ mgGrid.rank \in {3, 4}
            /\ DivisibleFinestGrid)
                => (mg.status = "ok" /\ AllSlotsSet)

\* the spatial dimensions a solver, restrictor or prolongator is written for:
\* the number of axes whose neighbours its stencil reads
implementsDims(fn) ==
    IF fn \in {"gaussSeidel2D", "halfWeightRestrict2D", "bilinearProlong2D", "jacobian"}
    THEN {2}
    ELSE IF fn \in {"gaussSeidel3D", "halfWeightRestrict3D", "bilinearProlong3D"}
    THEN {3}
    ELSE {}

\* the dimensions for which the algorithm of a name has an implementation
nameImplements(name) ==
    IF name \in {"gaussSeidel", "halfWeight", "bilinear"} THEN {2, 3}
    ELSE IF name = "jacobian" THEN {2}
    ELSE {}

\* C12 as stated: when a selected algorithm has no implementation for the
\* dimension D of the finest grid construction is fatal, and every installed
\* function implements D.
C12_InstalledImplementsDims ==
    (mg.status /= "none" /\ mgIni.nLevels /= 0 /\ mgIni.nMGCycles /= 0 /\ ValidNames) =>
        LET D == mgGrid.rank - 1
        IN  /\ (\E n \in {mgIni.preSmooth, mgIni.postSmooth, mgIni.coarseSolv,
                          mgIni.restrictor, mgIni.prolongator} :
                    D \notin nameImplements(n)) => mg.status = "fatal"
            /\ mg.status = "ok" =>
                    \A fn \in {mg.preSmooth, mg.postSmooth, mg.coarseSolv,
                                mg.restrictor, mg.prolongator} :
                        D \in implementsDims(fn)

(***************************************************************************)
(* Claims on the neighbour index algebra                                   *)
(***************************************************************************)

\* C6: puNeighborToReciprocal is an involution on [0, 3^D) and maps the
\* centre index (3^D-1)/2 to itself.
C6_ReciprocalInvolution ==
    algCall.fn = "puNeighborToReciprocal" =>
        /\ algCall.back = algCall.neighbor
        /\ algCall.reciprocal \in 0..(algInfo.nNeighbors - 1)
        /\ (algCall.neighbor = algInfo.neighborhoodCenter
               => algCall.reciprocal = algInfo.neighborhoodCenter)

\* a 3-D call on a corner neighbour whose reciprocal is a different index
C6_Witness ==
    /\ algCall.fn = "puNeighborToReciprocal"
    /\ algInfo.nDims = 3
    /\ algCall.neighbor = 5
    /\ algCall.reciprocal = 21
    /\ algCall.back = 5

\* r lies in the 3^D neighbourhood of the process: on every axis its subdomain
\* coordinate differs from the process's own by at most one, periodically
InNeighborhood(mpiInfo, r) ==
    \E n \in 0..(mpiInfo.nNeighbors - 1) : puNeighborToRank(mpiInfo, n) = r

\* C7 as stated: puNeighborToRank(puRankToNeighbor(r)) = r for every rank r of
\* the topology.
C7_RoundTripEveryRank ==
    algCall.fn = "puRankToNeighbor" => algCall.back = algCall.rank

\* C7 amended: the round trip holds for every rank r in the 3^D neighbourhood of
\* the process (every rank, when no axis has more than 3 subdomains).
C7_RoundTripNeighborRank ==
    (algCall.fn = "puRankToNeighbor" /\ InNeighborhood(algInfo, algCall.rank))
        => algCall.back = algCall.rank

\* a neighbouring rank across the periodic wrap of an axis of 4 subdomains
C7_Witness ==
    /\ algCall.fn = "puRankToNeighbor"
    /\ algInfo.nSubdomains = <<4, 2>>
    /\ algInfo.subdomain = <<0, 1>>
    /\ algCall.rank = 3
    /\ InNeighborhood(algInfo, algCall.rank)
    /\ algCall.back = 3

(***************************************************************************)
(* The 2-D kernels of the multigrid solver on the values of a Grid.        *)
(* val is a function on 0..sizeProd[rank]-1; a double is an integer in     *)
(* fixed point, and a product with 0.25, 0.125 or 0.5 a division.          *)
(***************************************************************************)
\* sizeProd[d] of a Grid: sizeProd[0] = 1, sizeProd[d+1] = sizeProd[d]*size[d]
sizeProdOf(grid, d) ==
    SeqProd(grid.size, d)

\* the value array of a Grid, all zero
zeroVal(grid) ==
    [g \in 0..(sizeProdOf(grid, grid.rank) - 1) |-> 0]

\* val[i]; an index outside the array reads whatever lies there in memory
rd(val, i, garbage) ==
    IF i \in DOMAIN val THEN val[i] ELSE garbage

\* val[i] = x; a store outside the array leaves the array as it is
wr(val, i, x) ==
    IF i \in DOMAIN val THEN [val EXCEPT ![i] = x] ELSE val

\* gZero: every element becomes 0
gZero(val) ==
    [g \in DOMAIN val |-> 0]

\* gAddTo(result, addition): result += addition, element by element
gAddTo(result, addition) ==
    [g \in DOMAIN result |-> result[g] + addition[g]]

\* the coordinate of element g along axis d (1 or 2) of a rank-3 Grid
coordOf(grid, g, d) ==
    (g \div sizeProdOf(grid, d)) % grid.size[d + 1]

\* gSwapGhostsDim(grid, mpiInfo, d) on one periodic subdomain: the lower ghost
\* layer along d takes the last interior layer, the upper ghost layer the first
gSwapGhostsDim(grid, val, d) ==
    LET T  == grid.trueSize[d + 1]
        sP == sizeProdOf(grid, d)
    IN  [g \in DOMAIN val |->
            IF coordOf(grid, g, d) = 0 THEN val[g + T * sP]
            ELSE IF coordOf(grid, g, d) = T + 1 THEN val[g - T * sP]
            ELSE val[g]]

\* for(d = 1; d < rank; d++) gSwapGhostsDim(grid, mpiInfo, d), rank = 3
gSwapGhosts(grid, val) ==
    gSwapGhostsDim(grid, gSwapGhostsDim(grid, val, 1), 2)

\* loopRedBlack2D, the loop over j
RECURSIVE loopRedBlack2Dj(_, _, _, _, _, _)
loopRedBlack2Dj(grid, rhoVal, phiVal, g, j, garbage) ==
    IF j >= grid.trueSize[2] THEN <<phiVal, g>>
    ELSE LET sP1 == sizeProdOf(grid, 1)
             sP2 == sizeProdOf(grid, 2)
             x   == (rd(phiVal, g + sP1, garbage) + rd(phiVal, g - sP1, garbage)
                     + rd(phiVal, g + sP2, garbage) + rd(phiVal, g - sP2, garbage)
                     + rd(rhoVal, g, garbage)) \div 4
         IN  loopRedBlack2Dj(grid, rhoVal, wr(phiVal, g, x), g + 2, j + 2, garbage)

\* loopRedBlack2D, the loop over k
RECURSIVE loopRedBlack2Dk(_, _, _, _, _, _, _)
loopRedBlack2Dk(grid, rhoVal, phiVal, kEdgeInc, g, k, garbage) ==
    IF k >= grid.trueSize[3] THEN phiVal
    ELSE LET row == loopRedBlack2Dj(grid, rhoVal, phiVal, g, 1, garbage)
         IN  loopRedBlack2Dk(grid, rhoVal, row[1], kEdgeInc, row[2] + kEdgeInc,
                             k + 2, garbage)

loopRedBlack2D(grid, rhoVal, phiVal, kEdgeInc, g, garbage) ==
    loopRedBlack2Dk(grid, rhoVal, phiVal, kEdgeInc, g, 1, garbage)

\* gaussSeidel2D, the loop over c
RECURSIVE gaussSeidel2D(_, _, _, _, _)
gaussSeidel2D(grid, phiVal, rhoVal, nCycles, garbage) ==
    IF nCycles <= 0 THEN phiVal
    ELSE LET nG       == grid.nGhostLayers
             rank     == grid.rank
             sP2      == sizeProdOf(grid, 2)
             kEdgeInc == nG[3] + nG[rank + 3] + sP2
             red1  == loopRedBlack2D(grid, rhoVal, phiVal, kEdgeInc,
                                     nG[2] + sP2, garbage)
             red2  == loopRedBlack2D(grid, rhoVal, red1, kEdgeInc,
                                     nG[2] + 1 + 2 * sP2, garbage)
             redS  == gSwapGhosts(grid, red2)
             blk1  == loopRedBlack2D(grid, rhoVal, redS, kEdgeInc,
                                     nG[2] + 1 + sP2, garbage)
             blk2  == loopRedBlack2D(grid, rhoVal, blk1, kEdgeInc,
                                     nG[2] + 2 * sP2, garbage)
         IN  gaussSeidel2D(grid, gSwapGhosts(grid, blk2), rhoVal, nCycles - 1, garbage)

\* jacobian: the element pinned to zero, 3*sizeProd[1] + 3*sizeProd[2]
normalizeOf(grid) ==
    3 * sizeProdOf(grid, 1) + 3 * sizeProdOf(grid, 2)

\* jacobian, the loop over c
RECURSIVE jacobian(_, _, _, _, _)
jacobian(grid, phiVal, rhoVal, nCycles, garbage) ==
    IF nCycles <= 0 THEN phiVal
    ELSE LET sP1 == sizeProdOf(grid, 1)
             sP2 == sizeProdOf(grid, 2)
             tempVal == [g \in DOMAIN phiVal |->
                            (rd(phiVal, g + sP1, garbage) + rd(phiVal, g - sP1, garbage)
                             + rd(phiVal, g + sP2, garbage) + rd(phiVal, g - sP2, garbage)
                             - rhoVal[g]) \div 4]
             pinned  == wr(tempVal, normalizeOf(grid), 0)
         IN  jacobian(grid, gSwapGhosts(grid, pinned), rhoVal, nCycles - 1, garbage)

\* halfWeightRestrict2D, the loop over j
RECURSIVE halfWeightRestrict2Dj(_, _, _, _, _, _, _)
halfWeightRestrict2Dj(fine, coarse, fVal, cVal, c, f, j) ==
    IF j >= coarse.size[2] - coarse.nGhostLayers[coarse.rank + 2] THEN <<cVal, c, f>>
    ELSE LET fSP1 == sizeProdOf(fine, 1)
             fSP2 == sizeProdOf(fine, 2)
             x    == (4 * fVal[f] + fVal[f + fSP1] + fVal[f - fSP1]
                      + fVal[f + fSP2] + fVal[f - fSP2]) \div 8
         IN  halfWeightRestrict2Dj(fine, coarse, fVal, wr(cVal, c, x), c + 1, f + 2, j + 1)

\* halfWeightRestrict2D, the loop over k
RECURSIVE halfWeightRestrict2Dk(_, _, _, _, _, _, _)
halfWeightRestrict2Dk(fine, coarse, fVal, cVal, c, f, k) ==
    IF k >= coarse.size[3] - coarse.nGhostLayers[coarse.rank + 3] THEN cVal
    ELSE LET nG        == fine.nGhostLayers
             cKEdgeInc == nG[3] + nG[fine.rank + 3]
             fKEdgeInc == cKEdgeInc + sizeProdOf(fine, 2)
             row == halfWeightRestrict2Dj(fine, coarse, fVal, cVal, c, f, nG[2])
         IN  halfWeightRestrict2Dk(fine, coarse, fVal, row[1], row[2] + cKEdgeInc,
                                   row[3] + fKEdgeInc, k + 1)

halfWeightRestrict2D(fine, coarse, fVal, cVal) ==
    halfWeightRestrict2Dk(fine, coarse, fVal, cVal,
                          sizeProdOf(coarse, 2) + sizeProdOf(coarse, 1),
                          sizeProdOf(fine, 2) + sizeProdOf(fine, 1),
                          fine.nGhostLayers[3])

\* bilinearProlong2D, direct insertion, the loop over j
RECURSIVE prolongInsert2Dj(_, _, _, _, _, _)
prolongInsert2Dj(coarse, fVal, cVal, c, f, j) ==
    IF j >= coarse.size[2] - coarse.nGhostLayers[coarse.rank + 2] THEN <<fVal, c, f>>
    ELSE prolongInsert2Dj(coarse, wr(fVal, f, cVal[c]), cVal, c + 1, f + 2, j + 1)

\* bilinearProlong2D, direct insertion, the loop over k
RECURSIVE prolongInsert2Dk(_, _, _, _, _, _, _)
prolongInsert2Dk(fine, coarse, fVal, cVal, c, f, k) ==
    IF k >= coarse.size[3] - coarse.nGhostLayers[coarse.rank + 3] THEN fVal
    ELSE LET nG        == fine.nGhostLayers
             cKEdgeInc == nG[3] + nG[fine.rank + 3]
             fKEdgeInc == cKEdgeInc + sizeProdOf(fine, 2)
             row == prolongInsert2Dj(coarse, fVal, cVal, c, f, nG[2])
         IN  prolongInsert2Dk(fine, coarse, row[1], cVal, row[2] + cKEdgeInc,
                              row[3] + fKEdgeInc, k + 1)

\* bilinearProlong2D, an interpolation pass, the loop over j: fPrev and fNext
\* are f - stride and f + stride
RECURSIVE prolongInterp2Dj(_, _, _, _, _, _)
prolongInterp2Dj(fine, fVal, f, stride, j, garbage) ==
    IF j >= fine.size[2] THEN <<fVal, f>>
    ELSE LET x == rd(fVal, f, garbage)
                  + (rd(fVal, f - stride, garbage) + rd(fVal, f + stride, garbage)) \div 2
         IN  prolongInterp2Dj(fine, wr(fVal, f, x), f + 2, stride, j + 2, garbage)

\* bilinearProlong2D, an interpolation pass, the loop over k with its step and
\* the increment of f at the end of a row
RECURSIVE prolongInterp2Dk(_, _, _, _, _, _, _, _)
prolongInterp2Dk(fine, fVal, f, stride, k, kStep, rowInc, garbage) ==
    IF k >= fine.size[3] THEN fVal
    ELSE LET row == prolongInterp2Dj(fine, fVal, f, stride, 0, garbage)
         IN  prolongInterp2Dk(fine, row[1], row[2] + rowInc, stride, k + kStep,
                              kStep, rowInc, garbage)

bilinearProlong2D(fine, coarse, fVal, cVal, garbage) ==
    LET fSP1 == sizeProdOf(fine, 1)
        fSP2 == sizeProdOf(fine, 2)
        inserted   == prolongInsert2Dk(fine, coarse, fVal, cVal,
                                       sizeProdOf(coarse, 2) + sizeProdOf(coarse, 1),
                                       fSP2 + fSP1, fine.nGhostLayers[3])
        swapped2   == gSwapGhostsDim(fine, inserted, 2)
        vertical   == prolongInterp2Dk(fine, swapped2, fSP1, fSP2, 0, 2, fSP2, garbage)
        swapped1   == gSwapGhostsDim(fine, vertical, 1)
    IN  prolongInterp2Dk(fine, swapped1, 0, fSP1, 0, 1, 0, garbage)

\* gFinDiff2nd2D: the second-order finite-difference Laplacian of phi on the
\* interior nodes
gFinDiff2nd2D(grid, resVal, phiVal) ==
    LET sP1 == sizeProdOf(grid, 1)
        sP2 == sizeProdOf(grid, 2)
    IN  [g \in DOMAIN resVal |->
            IF /\ coordOf(grid, g, 1) \in 1..grid.trueSize[2]
               /\ coordOf(grid, g, 2) \in 1..grid.trueSize[3]
            THEN phiVal[g + sP1] + phiVal[g - sP1] + phiVal[g + sP2] + phiVal[g - sP2]
                 - 4 * phiVal[g]
            ELSE resVal[g]]

\* mgResidual
mgResidual(grid, resVal, rhoVal, phiVal) ==
    LET lap == gFinDiff2nd2D(grid, resVal, phiVal)
    IN  gSwapGhosts(grid, [g \in DOMAIN resVal |-> lap[g] - rhoVal[g]])

(***************************************************************************)
(* linearMGSolv and mgVCycle: the recursion and the order of its steps     *)
(***************************************************************************)
MaxCycles == 2
MaxSolveLevels == 2

\* what an out-of-bounds read finds in memory, in fixed point
GarbageUnit == 64

Garbages == {0, GarbageUnit}

\* a smoother slot called on (phi, rho, nCycles)
callSmoother(fn, grid, phiVal, rhoVal, nCycles, garbage) ==
    IF fn = "gaussSeidel2D" THEN gaussSeidel2D(grid, phiVal, rhoVal, nCycles, garbage)
    ELSE jacobian(grid, phiVal, rhoVal, nCycles, garbage)

\* the store phiVal[normalize] = 0. of jacobian falls outside the array
smootherOverflows(fn, grid, nCycles) ==
    /\ fn = "jacobian"
    /\ nCycles > 0
    /\ normalizeOf(grid) >= sizeProdOf(grid, grid.rank)

\* the slot and the count a smoothing statement of mgVCycle uses
slotOfStatement(f, op) ==
    CASE op = "preSmooth"  -> <<f.preSmooth, f.nPreSmooth>>
      [] op = "postSmooth" -> <<f.postSmooth, f.nPostSmooth>>
      [] op = "coarseSolv" -> <<f.coarseSolv, f.nCoarseSolve>>

\* the values after a statement of mgVCycle at a level (level l is element l+1)
applyStatement(f, op, level, garbage) ==
    LET l == level + 1
    IN  CASE op = "gZero" ->
                [f EXCEPT !.phi[l] = gZero(@)]
          [] op \in {"preSmooth", "postSmooth", "coarseSolv"} ->
                [f EXCEPT !.phi[l] = callSmoother(slotOfStatement(f, op)[1], f.grids[l],
                                                 @, f.rho[l],
                                                 slotOfStatement(f, op)[2], garbage)]
          [] op = "mgResidual" ->
                [f EXCEPT !.res[l] = mgResidual(f.grids[l], @, f.rho[l], f.phi[l])]
          [] op = "restrictor" ->
                [f EXCEPT !.rho[l + 1] = halfWeightRestrict2D(f.grids[l], f.grids[l + 1],
                                                              f.res[l], @)]
          [] op = "gAddTo" ->
                [f EXCEPT !.phi[l] = gAddTo(@, f.res[l])]
          [] op = "prolongator" ->
                [f EXCEPT !.res[l - 1] = bilinearProlong2D(f.grids[l - 1], f.grids[l],
                                                          @, f.phi[l], garbage)]

\* a variant of the statement order in which the recursion is entered only
\* after res has been added to phi
stepAfter_AddBeforeRecurse(op) ==
    CASE op = "gZero"       -> "preSmooth"
      [] op = "preSmooth"   -> "mgResidual"
      [] op = "mgResidual"  -> "restrictor"
      [] op = "restrictor"  -> "gAddTo"
      [] op = "gAddTo"      -> "mgVCycle"
      [] op = "mgVCycle"    -> "postSmooth"
      [] op = "postSmooth"  -> "prolongator"
      [] op = "coarseSolv"  -> "prolongator"
      [] op = "prolongator" -> "return"

\* the statement that follows statement op in the body of mgVCycle
stepAfter(op) ==
    CASE op = "gZero"       -> "preSmooth"
      [] op = "preSmooth"   -> "mgResidual"
      [] op = "mgResidual"  -> "restrictor"
      [] op = "restrictor"  -> "mgVCycle"
      [] op = "mgVCycle"    -> "gAddTo"
      [] op = "gAddTo"      -> "postSmooth"
      [] op = "postSmooth"  -> "prolongator"
      [] op = "coarseSolv"  -> "prolongator"
      [] op = "prolongator" -> "return"

\* the grid a statement of mgVCycle at a level writes: <<Multigrid, index>>
writesOf(op, level) ==
    CASE op \in {"gZero", "preSmooth", "gAddTo", "postSmooth", "coarseSolv"}
                            -> <<"mgPhi", level>>
      [] op = "mgResidual"  -> <<"mgRes", level>>
      [] op = "restrictor"  -> <<"mgRho", level + 1>>
      [] op = "prolongator" -> <<"mgRes", level - 1>>

\* the grids a statement of mgVCycle at a level reads
readsOf(op, level) ==
    CASE op = "gZero"       -> {}
      [] op \in {"preSmooth", "postSmooth", "coarseSolv"}
                            -> {<<"mgPhi", level>>, <<"mgRho", level>>}
      [] op = "mgResidual"  -> {<<"mgRho", level>>, <<"mgPhi", level>>}
      [] op = "restrictor"  -> {<<"mgRes", level>>}
      [] op = "gAddTo"      -> {<<"mgPhi", level>>, <<"mgRes", level>>}
      [] op = "prolongator" -> {<<"mgPhi", level>>}

eventOf(op, level) ==
    [op |-> op, level |-> level, writes |-> writesOf(op, level),
     reads |-> readsOf(op, level)]

vcTop ==
    vcycle.stack[Len(vcycle.stack)]

vcRunning ==
    /\ vcycle.kind = "solve"
    /\ ~vcycle.crashed
    /\ vcycle.stack /= << >>

\* a V-cycle has returned to linearMGSolv
vcCycleDone ==
    /\ vcycle.kind = "solve"
    /\ vcycle.c > 0
    /\ vcycle.stack = << >>
    /\ ~vcycle.crashed

\* the top frame moves to statement op
vcGoto(stack, op) ==
    [stack EXCEPT ![Len(stack)].pc = op]

VCIdleOthers ==
    UNCHANGED <<algInfo, algCall, mgIni, mgGrid, mg, migVars, kernel>>

\* linearMGSolv: one iteration of the loop over c calls mgVCycle(ini, 0, targetLvl)
LinearMGSolvCall ==
    /\ vcycle.kind = "solve"
    /\ ~vcycle.crashed
    /\ vcycle.stack = << >>
    /\ vcycle.c < vcycle.nMGCycles
    /\ vcycle' = [vcycle EXCEPT !.c = @ + 1,
                                !.stack = <<[level |-> 0, pc |-> "enter"]>>,
                                !.log = << >>]
    /\ UNCHANGED fields
    /\ VCIdleOthers

\* mgVCycle is entered: the test level == targetLvl
VCycleEnter ==
    /\ vcRunning
    /\ vcTop.pc = "enter"
    /\ vcycle' = [vcycle EXCEPT
           !.log = Append(@, [op |-> "enter", level |-> vcTop.level,
                              writes |-> << >>, reads |-> {}]),
           !.stack = vcGoto(@, IF vcTop.level = vcycle.nLevels - 1
                               THEN "coarseSolv" ELSE "gZero")]
    /\ UNCHANGED fields
    /\ VCIdleOthers

\* one of the statements gZero, preSmooth, mgResidual, restrictor, gAddTo,
\* postSmooth, coarseSolv: each reads and writes grids[level] or grids[level+1]
VCycleStatement ==
    /\ vcRunning
    /\ vcTop.pc \in {"gZero", "preSmooth", "mgResidual", "restrictor", "gAddTo",
                     "postSmooth", "coarseSolv"}
    /\ \E garbage \in Garbages : \E fault \in BOOLEAN :
          /\ fault => /\ fields.tracked
                      /\ vcTop.pc \in {"preSmooth", "postSmooth", "coarseSolv"}
                      /\ smootherOverflows(slotOfStatement(fields, vcTop.pc)[1],
                                           fields.grids[vcTop.level + 1],
                                           slotOfStatement(fields, vcTop.pc)[2])
          /\ vcycle' = [vcycle EXCEPT
                 !.log = Append(@, eventOf(vcTop.pc, vcTop.level)),
                 !.crashed = fault,
                 !.stack = vcGoto(@, stepAfter(vcTop.pc))]
          /\ fields' = IF fields.tracked
                       THEN applyStatement(fields, vcTop.pc, vcTop.level, garbage)
                       ELSE fields
    /\ VCIdleOthers

\* the recursive call mgVCycle(ini, level + 1, targetLvl, ...)
VCycleRecurse ==
    /\ vcRunning
    /\ vcTop.pc = "mgVCycle"
    /\ vcycle' = [vcycle EXCEPT
           !.stack = Append(vcGoto(@, stepAfter("mgVCycle")),
                            [level |-> vcTop.level + 1, pc |-> "enter"])]
    /\ UNCHANGED fields
    /\ VCIdleOthers

\* prolongator(mgRes->grids[level-1], phi): unconditional at the target level,
\* under if(level > 0) elsewhere.  At level 0 the target-level call writes
\* grids[-1], outside the array: the program crashes or goes on.
VCycleProlong ==
    /\ vcRunning
    /\ vcTop.pc = "prolongator"
    /\ IF vcTop.level = vcycle.nLevels - 1 \/ vcTop.level > 0
       THEN \E fault \in BOOLEAN : \E garbage \in Garbages :
               /\ fault => vcTop.level - 1 < 0
               /\ vcycle' = [vcycle EXCEPT
                      !.log = Append(@, eventOf("prolongator", vcTop.level)),
                      !.crashed = fault,
                      !.stack = vcGoto(@, stepAfter("prolongator"))]
               /\ fields' = IF fields.tracked /\ vcTop.level - 1 >= 0
                            THEN applyStatement(fields, "prolongator", vcTop.level,
                                                garbage)
                            ELSE fields
       ELSE /\ vcycle' = [vcycle EXCEPT !.stack = vcGoto(@, stepAfter("prolongator"))]
            /\ UNCHANGED fields
    /\ VCIdleOthers

\* return from mgVCycle
VCycleReturn ==
    /\ vcRunning
    /\ vcTop.pc = "return"
    /\ vcycle' = [vcycle EXCEPT
           !.stack = [k \in 1..(Len(@) - 1) |-> @[k]]]
    /\ UNCHANGED fields
    /\ VCIdleOthers

\* the Multigrids passed to linearMGSolv: nLevels and nMGCycles as accepted by
\* mgAlloc
InitVC ==
    /\ vcycle \in [kind : {"solve"}, nLevels : 1..MaxLevels, nMGCycles : 1..MaxCycles,
                   c : {0}, stack : {<< >>}, log : {<< >>}, crashed : {FALSE}]
    /\ fields = [tracked |-> FALSE]
    /\ kernel = [called |-> "idle"]
    /\ AlgIdle
    /\ MGIdle
    /\ MigIdle

NextVC ==
    \/ LinearMGSolvCall
    \/ VCycleEnter
    \/ VCycleStatement
    \/ VCycleRecurse
    \/ VCycleProlong
    \/ VCycleReturn

SpecVC == InitVC /\ [][NextVC]_vars

\* extents of the finest 2-D grid on which the values are followed
SolveSizes == {2, 4}

\* mgRho, mgPhi and mgRes as mgAlloc makes them for a 2-D grid, every value zero
fieldsOf(finest, nLevels, names, counts) ==
    LET grids == mgAllocSubGrids(finest, nLevels)
        zeros == [l \in 1..nLevels |-> zeroVal(grids[l])]
    IN  [tracked      |-> TRUE,
         grids        |-> grids,
         rho          |-> zeros,
         phi          |-> zeros,
         res          |-> zeros,
         preSmooth    |-> names[1],
         postSmooth   |-> names[2],
         coarseSolv   |-> names[3],
         nPreSmooth   |-> counts[1],
         nPostSmooth  |-> counts[2],
         nCoarseSolve |-> counts[3]]

\* linearMGSolv on a zero right-hand side and a zero phi, for every selectable
\* smoother in every slot
InitSolve ==
    /\ vcycle \in [kind : {"solve"}, nLevels : 1..MaxSolveLevels,
                   nMGCycles : 1..MaxCycles,
                   c : {0}, stack : {<< >>}, log : {<< >>}, crashed : {FALSE}]
    /\ \E T \in {x \in SolveSizes : x % Pow(2, vcycle.nLevels - 1) = 0} :
       \E names \in SeqsOver({"gaussSeidel2D", "jacobian"}, 3) :
       \E counts \in SeqsOver({0, 1}, 3) :
          fields = fieldsOf(GridOf(<<1, T, T>>, GhostLayersOf(3)), vcycle.nLevels,
                            names, counts)
    /\ kernel = [called |-> "idle"]
    /\ AlgIdle
    /\ MGIdle
    /\ MigIdle

SpecSolve == InitSolve /\ [][NextVC]_vars

\* the interior nodes of a rank-3 Grid
interiorOf(grid) ==
    {g \in 0..(sizeProdOf(grid, 3) - 1) :
        /\ coordOf(grid, g, 1) \in 1..grid.trueSize[2]
        /\ coordOf(grid, g, 2) \in 1..grid.trueSize[3]}

\* C14 as stated, for the interior values: whenever a V-cycle of linearMGSolv
\* started from a zero right-hand side and a zero phi has returned, phi at
\* level 0 is zero on every interior node.
C14_ZeroStaysZero ==
    (fields.tracked /\ vcCycleDone) =>
        \A g \in interiorOf(fields.grids[1]) : fields.phi[1][g] = 0

\* the steps of the current V-cycle taken at a level, in order
RECURSIVE opsAtUpTo(_, _)
opsAtUpTo(level, n) ==
    IF n = 0 THEN << >>
    ELSE IF vcycle.log[n].level = level /\ vcycle.log[n].op /= "enter"
         THEN Append(opsAtUpTo(level, n - 1), vcycle.log[n].op)
         ELSE opsAtUpTo(level, n - 1)

opsAt(level) ==
    opsAtUpTo(level, Len(vcycle.log))

\* the levels entered in the current V-cycle, in order
RECURSIVE entersUpTo(_)
entersUpTo(n) ==
    IF n = 0 THEN << >>
    ELSE IF vcycle.log[n].op = "enter"
         THEN Append(entersUpTo(n - 1), vcycle.log[n].level)
         ELSE entersUpTo(n - 1)

isPrefix(u, v) ==
    /\ Len(u) <= Len(v)
    /\ \A k \in 1..Len(u) : u[k] = v[k]

\* the order of the claim at a level below the target
orderBelowTarget(level) ==
    <<"gZero", "preSmooth", "mgResidual", "restrictor", "gAddTo", "postSmooth">>
        \o (IF level > 0 THEN <<"prolongator">> ELSE << >>)

\* C13: within one V-cycle the levels are entered 0, 1, 2, ... each once
\* (exactly the levels [0, L) when the cycle returns); at a level below the
\* target the steps are zero phi, pre-smooth, residual, restrict into level+1,
\* the recursion, add res into phi, post-smooth, prolong (only if level > 0);
\* every step of a deeper level lies between the restriction and the addition
\* of the level above; a post-smooth comes after the prolongation of the level
\* below it has written mgRes[level].
C13_DepthFirstOrder ==
    vcycle.kind = "solve" =>
        LET log == vcycle.log
            L   == vcycle.nLevels
        IN  /\ isPrefix(entersUpTo(Len(log)), [k \in 1..L |-> k - 1])
            /\ vcCycleDone => entersUpTo(Len(log)) = [k \in 1..L |-> k - 1]
            /\ \A l \in 0..(L - 2) :
                  /\ isPrefix(opsAt(l), orderBelowTarget(l))
                  /\ vcCycleDone => opsAt(l) = orderBelowTarget(l)
            /\ \A i, j \in 1..Len(log) :
                  (i < j /\ log[i].level < log[j].level) =>
                      /\ log[i].op \in {"enter", "gZero", "preSmooth", "mgResidual",
                                        "restrictor"}
                      /\ \E k \in 1..(j - 1) :
                            /\ log[k].op = "restrictor"
                            /\ log[k].level = log[j].level - 1
                            /\ log[k].writes = <<"mgRho", log[j].level>>
            /\ \A i, j \in 1..Len(log) :
                  (i < j /\ log[i].level > log[j].level) =>
                      log[j].op \in {"gAddTo", "postSmooth", "prolongator"}
            /\ \A j \in 1..Len(log) :
                  log[j].op = "postSmooth" =>
                      \E i \in 1..(j - 1) :
                          /\ log[i].op = "prolongator"
                          /\ log[i].level = log[j].level + 1
                          /\ log[i].writes = <<"mgRes", log[j].level>>

\* a V-cycle over three levels has returned
C13_Witness ==
    /\ vcCycleDone
    /\ vcycle.nLevels = 3
    /\ opsAt(1) = orderBelowTarget(1)
    /\ opsAt(2) = <<"coarseSolv", "prolongator">>

\* C22 as stated: for every nLevels >= 1 accepted by mgAlloc, every index with
\* which a statement of linearMGSolv / mgVCycle accesses mgRho->grids,
\* mgPhi->grids or mgRes->grids (the grid it writes and the grids it reads)
\* lies in [0, nLevels).
C22_GridIndicesInRange ==
    vcycle.kind = "solve" =>
        \A k \in 1..Len(vcycle.log) :
            vcycle.log[k].op /= "enter" =>
                /\ vcycle.log[k].writes[2] \in 0..(vcycle.nLevels - 1)
                /\ \A r \in vcycle.log[k].reads : r[2] \in 0..(vcycle.nLevels - 1)

(***************************************************************************)
(* puAcc3D1, puInterp3D1 and puDistr3D1.  A position is an integer number  *)
(* of halves of a grid step, a weight an integer number of eighths, so the *)
(* products of the code are exact.                                         *)
(***************************************************************************)
\* the steps of a position per grid step
PosUnit == 2

\* (int) x of a position: truncation toward zero, in grid steps
truncInt(x) ==
    IF x >= 0 THEN x \div PosUnit ELSE 0 - ((0 - x) \div PosUnit)

\* the eight products xcomp*ycomp*zcomp ... x*y*z in the order p, pj, pk, pjk,
\* pl, pjl, pkl, pjkl
cornerWeights(pos) ==
    LET x == pos[1] - PosUnit * truncInt(pos[1])
        y == pos[2] - PosUnit * truncInt(pos[2])
        z == pos[3] - PosUnit * truncInt(pos[3])
        xcomp == PosUnit - x
        ycomp == PosUnit - y
        zcomp == PosUnit - z
    IN  <<xcomp * ycomp * zcomp, x * ycomp * zcomp, xcomp * y * zcomp, x * y * zcomp,
          xcomp * ycomp * z, x * ycomp * z, xcomp * y * z, x * y * z>>

\* the indices p, pj, pk, pjk, pl, pjl, pkl, pjkl of the neighbouring nodes;
\* step is the stride along axis 1 (1 in puDistr3D1, 3 in puInterp3D1)
cornerNodes(pos, sizeProd2, sizeProd3, step) ==
    LET q == truncInt(pos[1]) * step + truncInt(pos[2]) * sizeProd2
             + truncInt(pos[3]) * sizeProd3
    IN  <<q, q + step, q + sizeProd2, q + sizeProd2 + step,
          q + sizeProd3, q + sizeProd3 + step, q + sizeProd3 + sizeProd2,
          q + sizeProd3 + sizeProd2 + step>>

RECURSIVE weightedSum(_, _, _, _, _)
weightedSum(w, nodes, val, v, n) ==
    IF n = 0 THEN 0
    ELSE w[n] * val[nodes[n] + v] + weightedSum(w, nodes, val, v, n - 1)

\* puInterp3D1: result[v], in eighths
puInterp3D1(pos, val, sizeProd2, sizeProd3) ==
    LET w     == cornerWeights(pos)
        nodes == cornerNodes(pos, sizeProd2, sizeProd3, 3)
    IN  [v \in 1..3 |-> weightedSum(w, nodes, val, v - 1, 8)]

\* gMul(grid, factor): every value is multiplied by factor
gMul(val, factor) ==
    [g \in DOMAIN val |-> val[g] * factor]

\* the position of particle i (0-based) of a 3-D population
posOf(pos, i) ==
    <<pos[3 * i + 1], pos[3 * i + 2], pos[3 * i + 3]>>

\* puAcc3D1, the loop over the particles of a species
RECURSIVE accParticleLoop(_, _, _, _, _, _)
accParticleLoop(population, val, sizeProd2, sizeProd3, i, iStop) ==
    IF i >= iStop THEN population
    ELSE LET dv == puInterp3D1(posOf(population.pos, i), val, sizeProd2, sizeProd3)
         IN  accParticleLoop(
                 [population EXCEPT !.vel = [k \in 1..Len(@) |->
                     IF (k - 1) \div 3 = i THEN @[k] + dv[((k - 1) % 3) + 1] ELSE @[k]]],
                 val, sizeProd2, sizeProd3, i + 1, iStop)

\* puAcc3D1, the loop over the species: <<population, E->val>> at the end
RECURSIVE accSpeciesLoop(_, _, _, _, _)
accSpeciesLoop(population, val, sizeProd2, sizeProd3, s) ==
    IF s > population.nSpecies THEN <<population, val>>
    ELSE accSpeciesLoop(
             accParticleLoop(population, val, sizeProd2, sizeProd3,
                             population.iStart[s], population.iStop[s]),
             gMul(val, population.renormE[s]), sizeProd2, sizeProd3, s + 1)

puAcc3D1(population, E) ==
    accSpeciesLoop(population, E.val, sizeProdOf(E, 2), sizeProdOf(E, 3), 1)

\* puDistr3D1: the eight += of one particle
RECURSIVE depositCorners(_, _, _, _)
depositCorners(val, w, nodes, n) ==
    IF n = 0 THEN val
    ELSE depositCorners([val EXCEPT ![nodes[n]] = @ + w[n]], w, nodes, n - 1)

\* puDistr3D1, the loop over the particles of a species
RECURSIVE distrParticleLoop(_, _, _, _, _, _)
distrParticleLoop(population, val, sizeProd2, sizeProd3, i, iStop) ==
    IF i >= iStop THEN val
    ELSE distrParticleLoop(population,
             depositCorners(val, cornerWeights(posOf(population.pos, i)),
                            cornerNodes(posOf(population.pos, i), sizeProd2, sizeProd3, 1),
                            8),
             sizeProd2, sizeProd3, i + 1, iStop)

\* puDistr3D1, the loop over the species
RECURSIVE distrSpeciesLoop(_, _, _, _, _)
distrSpeciesLoop(population, val, sizeProd2, sizeProd3, s) ==
    IF s > population.nSpecies THEN val
    ELSE distrSpeciesLoop(population,
             gMul(distrParticleLoop(population, val, sizeProd2, sizeProd3,
                                    population.iStart[s], population.iStop[s]),
                  population.renormRho[s]),
             sizeProd2, sizeProd3, s + 1)

puDistr3D1(population, rho) ==
    distrSpeciesLoop(population, gZero(rho.val), sizeProdOf(rho, 2), sizeProdOf(rho, 3), 1)

MaxPushSpecies == 2
MaxPushParticles == 2
\* the slots allocated to each species
PushSlots == MaxPushParticles

\* positions inside the cell of nodes {0,1}^3, in halves of a grid step
PushPositions == {<<0, 0, 0>>, <<1, 0, 1>>, <<1, 1, 1>>}

\* the live particles of one species
PushLists ==
    UNION {SeqsOver(PushPositions, n) : n \in 0..MaxPushParticles}

\* a Population of 3-D particles: species s owns the slots
\* [(s-1)*PushSlots, s*PushSlots), of which the first Len(lists[s]) are live
pushPopulation(lists, renormE, renormRho) ==
    LET S == Len(lists)
    IN  [nSpecies  |-> S,
         pos       |-> [k \in 1..(S * PushSlots * 3) |->
                          LET i == (k - 1) \div 3
                              t == (i \div PushSlots) + 1
                              n == (i % PushSlots) + 1
                          IN  IF n <= Len(lists[t]) THEN lists[t][n][((k - 1) % 3) + 1]
                              ELSE 0],
         vel       |-> [k \in 1..(S * PushSlots * 3) |-> 1],
         iStart    |-> [t \in 1..S |-> (t - 1) * PushSlots],
         iStop     |-> [t \in 1..S |-> (t - 1) * PushSlots + Len(lists[t])],
         renormE   |-> renormE,
         renormRho |-> renormRho]

\* a Grid of 2x2x2 nodes without ghost layers, with `leading' values per node
pushGrid(leading, val) ==
    GridOf(<<leading, 2, 2, 2>>, [i \in 1..8 |-> 0]) @@ [val |-> val]

\* the populations tried: at most MaxPushParticles particles in all
PushPopulations(renormsE, renormsRho) ==
    {pushPopulation(lists, rE, rR) :
        lists \in {l \in UNION {[1..S -> PushLists] : S \in 1..MaxPushSpecies} :
                      alSum([t \in 1..Len(l) |-> Len(l[t])]) <= MaxPushParticles},
        rE \in renormsE, rR \in renormsRho}

renormsOver(values) ==
    UNION {[1..S -> values] : S \in 1..MaxPushSpecies}

InitPush3D ==
    /\ \/ \E population \in PushPopulations(renormsOver({1, 2}), renormsOver({1})) :
          \E val \in {[g \in 0..23 |-> g + 1], [g \in 0..23 |-> IF g % 3 = 0 THEN 1 ELSE 0]} :
             /\ Len(population.renormE) = population.nSpecies
             /\ Len(population.renormRho) = population.nSpecies
             /\ kernel = [called |-> "none", fn |-> "puAcc3D1", pop |-> population,
                          grid |-> pushGrid(3, val), pop0 |-> population, val0 |-> val]
       \/ \E population \in PushPopulations(renormsOver({1}), renormsOver({1, 2})) :
          \E val \in {[g \in 0..7 |-> 0], [g \in 0..7 |-> 5]} :
             /\ Len(population.renormE) = population.nSpecies
             /\ Len(population.renormRho) = population.nSpecies
             /\ kernel = [called |-> "none", fn |-> "puDistr3D1", pop |-> population,
                          grid |-> pushGrid(1, val), pop0 |-> population, val0 |-> val]
    /\ vcycle = [kind |-> "idle"]
    /\ fields = [tracked |-> FALSE]
    /\ AlgIdle
    /\ MGIdle
    /\ MigIdle

KernelIdleOthers ==
    UNCHANGED <<algInfo, algCall, mgIni, mgGrid, mg, migVars, vcycle, fields>>

CallPuAcc3D1 ==
    /\ kernel.called = "none"
    /\ kernel.fn = "puAcc3D1"
    /\ LET r == puAcc3D1(kernel.pop, kernel.grid)
       IN  kernel' = [kernel EXCEPT !.called = "puAcc3D1", !.pop = r[1],
                                    !.grid.val = r[2]]
    /\ KernelIdleOthers

CallPuDistr3D1 ==
    /\ kernel.called = "none"
    /\ kernel.fn = "puDistr3D1"
    /\ kernel' = [kernel EXCEPT !.called = "puDistr3D1",
                                !.grid.val = puDistr3D1(kernel.pop, kernel.grid)]
    /\ KernelIdleOthers

NextPush3D ==
    \/ CallPuAcc3D1
    \/ CallPuDistr3D1

SpecPush3D == InitPush3D /\ [][NextPush3D]_vars

\* the species (1-based) whose live interval holds slot i, or 0
liveSpeciesOf(population, i) ==
    IF \E t \in 1..population.nSpecies :
           i >= population.iStart[t] /\ i < population.iStop[t]
    THEN CHOOSE t \in 1..population.nSpecies :
             i >= population.iStart[t] /\ i < population.iStop[t]
    ELSE 0

\* C15 as stated: puAcc3D1 adds to the velocity of every live particle of
\* species s exactly renormE[s] times the trilinear interpolation of E, as
\* passed in, at the position of the particle; the velocities of the other
\* slots and all positions are unchanged.  (Velocities are in eighths.)
C15_VelocityByRenormE ==
    kernel.called = "puAcc3D1" =>
        /\ kernel.pop.pos = kernel.pop0.pos
        /\ \A k \in 1..Len(kernel.pop.vel) :
              LET i == (k - 1) \div 3
                  t == liveSpeciesOf(kernel.pop0, i)
              IN  kernel.pop.vel[k] - kernel.pop0.vel[k] =
                      IF t = 0 THEN 0
                      ELSE kernel.pop0.renormE[t]
                               * puInterp3D1(posOf(kernel.pop0.pos, i), kernel.val0,
                                             sizeProdOf(kernel.grid, 2),
                                             sizeProdOf(kernel.grid, 3))[((k - 1) % 3) + 1]

RECURSIVE sumVal(_, _)
sumVal(val, n) ==
    IF n < 0 THEN 0 ELSE val[n] + sumVal(val, n - 1)

\* C16 as stated: every particle deposits eight weights that sum to 1, and
\* after puDistr3D1 the sum of rho is the sum over the species of
\* N_s * renormRho[s], whatever rho held before.  (Weights are in eighths.)
C16_DepositSumsToRenormRho ==
    kernel.called = "puDistr3D1" =>
        /\ \A i \in 0..(kernel.pop.nSpecies * PushSlots - 1) :
              alSum(cornerWeights(posOf(kernel.pop.pos, i))) = 8
        /\ sumVal(kernel.grid.val, 7) =
              alSum([t \in 1..kernel.pop.nSpecies |->
                        8 * (kernel.pop.iStop[t] - kernel.pop.iStart[t])
                          * kernel.pop.renormRho[t]])

(***************************************************************************)
(* puBndPeriodic, pusher.c:43-62.  Positions are in halves of a grid step.  *)
(***************************************************************************)
\* the two if statements on one coordinate
bndWrap(x, size) ==
    LET y == IF x > size * PosUnit THEN x - size * PosUnit ELSE x
    IN  IF y < 0 THEN y + size * PosUnit ELSE y

\* the loops over s, i and d: slot i (0-based) is visited when it is live
puBndPeriodic(population, grid) ==
    [population EXCEPT !.pos = [k \in 1..Len(@) |->
        IF liveSpeciesOf(population, (k - 1) \div population.nDims) # 0
        THEN bndWrap(@[k], grid.size[((k - 1) % population.nDims) + 2])
        ELSE @[k]]]

MaxBndSize == 3
BndDims == 2

\* coordinates from one domain length below 0 to two above, and beyond
BndCoords == (0 - MaxBndSize * PosUnit - 1)..(2 * MaxBndSize * PosUnit)

\* one slot per species; the slot of species 1 takes every position
BndPopulations ==
    {[nSpecies |-> S,
      nDims    |-> BndDims,
      pos      |-> [k \in 1..(S * BndDims) |->
                       IF k <= BndDims THEN first[k] ELSE second[k - BndDims]],
      vel      |-> [k \in 1..(S * BndDims) |-> k],
      iStart   |-> [t \in 1..S |-> t - 1],
      iStop    |-> [t \in 1..S |-> t - 1 + live[t]]] :
        S \in 1..2,
        first \in [1..BndDims -> BndCoords],
        second \in {<<0 - 1, 2 * PosUnit>>, <<0, 1>>},
        live \in [1..2 -> {0, 1}]}

InitBnd ==
    /\ \E population \in BndPopulations :
       \E size \in [2..(BndDims + 1) -> 2..MaxBndSize] :
          kernel = [called |-> "none", fn |-> "puBndPeriodic", pop |-> population,
                    grid |-> [rank |-> BndDims + 1,
                              size |-> [d \in 1..(BndDims + 1) |->
                                           IF d = 1 THEN 1 ELSE size[d]]],
                    pop0 |-> population]
    /\ vcycle = [kind |-> "idle"]
    /\ fields = [tracked |-> FALSE]
    /\ AlgIdle
    /\ MGIdle
    /\ MigIdle

CallPuBndPeriodic ==
    /\ kernel.called = "none"
    /\ kernel.fn = "puBndPeriodic"
    /\ kernel' = [kernel EXCEPT !.called = "puBndPeriodic",
                                !.pop = puBndPeriodic(kernel.pop, kernel.grid)]
    /\ KernelIdleOthers

NextBnd ==
    CallPuBndPeriodic

SpecBnd == InitBnd /\ [][NextBnd]_vars

\* C17 as stated: puBndPeriodic subtracts size[d+1] from every coordinate
\* pos[d] >= size[d+1] of a live particle and adds size[d+1] to every
\* coordinate pos[d] < 0, so that a coordinate that started in
\* [-size[d+1], 2*size[d+1]) ends in [0, size[d+1]); coordinates already in
\* [0, size[d+1]), the slots that are not live and all velocities are unchanged.
C17_WrapsByOneLength ==
    kernel.called = "puBndPeriodic" =>
        /\ kernel.pop.vel = kernel.pop0.vel
        /\ \A k \in 1..Len(kernel.pop.pos) :
              LET size == kernel.grid.size[((k - 1) % kernel.pop.nDims) + 2] * PosUnit
                  x0   == kernel.pop0.pos[k]
                  x    == kernel.pop.pos[k]
              IN  IF liveSpeciesOf(kernel.pop0, (k - 1) \div kernel.pop.nDims) = 0
                  THEN x = x0
                  ELSE /\ x0 >= size => x = x0 - size
                       /\ x0 < 0 => x = x0 + size
                       /\ (x0 >= 0 /\ x0 < size) => x = x0
                       /\ (x0 >= 0 - size /\ x0 < 2 * size) => (x >= 0 /\ x < size)

(***************************************************************************)
(* gaussSeidel3D and loopRedBlack3D, multigrid.c:200-243, 513-594.  Beside *)
(* the values, a sweep keeps the list of the indices g it has stored to;   *)
(* a store outside the array is a fault, after which the sweep does        *)
(* nothing more.                                                           *)
(***************************************************************************)
\* loopRedBlack3D, the loop over j: phiVal[g] = 0.125*(...)
RECURSIVE loopRedBlack3Dj(_, _, _, _, _, _)
loopRedBlack3Dj(grid, rhoVal, st, g, j, garbage) ==
    IF st.fault \/ j >= grid.trueSize[2] THEN <<st, g>>
    ELSE LET sP1 == sizeProdOf(grid, 1)
             sP2 == sizeProdOf(grid, 2)
             sP3 == sizeProdOf(grid, 3)
             x   == (rd(st.val, g + sP1, garbage) + rd(st.val, g - sP1, garbage)
                     + rd(st.val, g + sP2, garbage) + rd(st.val, g - sP2, garbage)
                     + rd(st.val, g + sP3, garbage) + rd(st.val, g - sP3, garbage)
                     + rd(rhoVal, g, garbage)) \div 8
         IN  loopRedBlack3Dj(grid, rhoVal,
                             [val     |-> wr(st.val, g, x),
                              written |-> Append(st.written, g),
                              fault   |-> g \notin DOMAIN st.val],
                             g + 2, j + 2, garbage)

\* loopRedBlack3D, the loop over k
RECURSIVE loopRedBlack3Dk(_, _, _, _, _, _, _)
loopRedBlack3Dk(grid, rhoVal, st, kEdgeInc, g, k, garbage) ==
    IF st.fault \/ k >= grid.trueSize[3] THEN <<st, g>>
    ELSE LET row == loopRedBlack3Dj(grid, rhoVal, st, g, 0, garbage)
         IN  loopRedBlack3Dk(grid, rhoVal, row[1], kEdgeInc, row[2] + kEdgeInc,
                             k + 2, garbage)

\* loopRedBlack3D, the loop over l
RECURSIVE loopRedBlack3Dl(_, _, _, _, _, _, _, _)
loopRedBlack3Dl(grid, rhoVal, st, kEdgeInc, lEdgeInc, g, l, garbage) ==
    IF st.fault \/ l >= grid.trueSize[4] THEN st
    ELSE LET plane == loopRedBlack3Dk(grid, rhoVal, st, kEdgeInc, g, 0, garbage)
         IN  loopRedBlack3Dl(grid, rhoVal, plane[1], kEdgeInc, lEdgeInc,
                             plane[2] + lEdgeInc, l + 2, garbage)

loopRedBlack3D(grid, rhoVal, st, kEdgeInc, lEdgeInc, g, garbage) ==
    loopRedBlack3Dl(grid, rhoVal, st, kEdgeInc, lEdgeInc, g, 0, garbage)

\* for(d = 1; d < rank; d++) gSwapGhostsDim(phi, mpiInfo, d), rank = 4
gSwapGhosts3D(grid, val) ==
    gSwapGhostsDim(grid, gSwapGhostsDim(grid, gSwapGhostsDim(grid, val, 1), 2), 3)

\* the four calls of loopRedBlack3D of a pass, from the starting indices
\* starts[1..4]
RECURSIVE sweepPass(_, _, _, _, _, _, _, _)
sweepPass(grid, rhoVal, st, kEdgeInc, lEdgeInc, starts, n, garbage) ==
    IF st.fault \/ n > Len(starts) THEN st
    ELSE sweepPass(grid, rhoVal,
                   loopRedBlack3D(grid, rhoVal, st, kEdgeInc, lEdgeInc, starts[n], garbage),
                   kEdgeInc, lEdgeInc, starts, n + 1, garbage)

\* the starting indices of the red pass (multigrid.c:545, 550, 555, 560)
redStarts(grid) ==
    LET nG  == grid.nGhostLayers
        sP1 == sizeProdOf(grid, 1)
        sP2 == sizeProdOf(grid, 2)
        sP3 == sizeProdOf(grid, 3)
    IN  <<nG[2] * sP1 + nG[3] * sP2 + nG[4] * sP3,
          (nG[2] + 1) * sP1 + (nG[3] + 1) * sP2 + nG[4] * sP3,
          nG[2] * sP1 + nG[3] * sP2 + (nG[4] + 1) * sP3,
          (nG[2] + 1) * sP1 + (nG[3] + 1) * sP2 + (nG[4] + 1) * sP3>>

\* the starting indices of the black pass (multigrid.c:570, 575, 580, 585)
blackStarts(grid) ==
    LET nG  == grid.nGhostLayers
        sP1 == sizeProdOf(grid, 1)
        sP2 == sizeProdOf(grid, 2)
        sP3 == sizeProdOf(grid, 3)
    IN  <<(nG[2] * sP1 + 1) + nG[3] * sP2 + nG[4] * sP3,
          nG[2] * sP1 + (nG[3] + 1) * sP2 + nG[4] * sP3,
          nG[2] * sP1 + nG[3] * sP2 + (nG[4] + 1) * sP3,
          (nG[2] + 1) * sP1 + (nG[3] + 1) * sP2 + (nG[4] + 1) * sP3>>

\* gaussSeidel3D, the loop over c: the values of phi and, for every cycle, the
\* indices stored to by the red and by the black pass
RECURSIVE gaussSeidel3DLoop(_, _, _, _, _, _)
gaussSeidel3DLoop(grid, phiVal, rhoVal, nCycles, cycles, garbage) ==
    IF nCycles <= 0 THEN [val |-> phiVal, cycles |-> cycles, fault |-> FALSE]
    ELSE LET nG       == grid.nGhostLayers
             rank     == grid.rank
             kEdgeInc == (nG[2] + nG[rank + 2]) + sizeProdOf(grid, 2)
             lEdgeInc == (nG[3] + nG[rank + 3]) * sizeProdOf(grid, 2) + sizeProdOf(grid, 3)
             red      == sweepPass(grid, rhoVal,
                                   [val |-> phiVal, written |-> << >>, fault |-> FALSE],
                                   kEdgeInc, lEdgeInc, redStarts(grid), 1, garbage)
             black    == IF red.fault THEN [red EXCEPT !.written = << >>]
                         ELSE sweepPass(grid, rhoVal,
                                        [val     |-> gSwapGhosts3D(grid, red.val),
                                         written |-> << >>,
                                         fault   |-> FALSE],
                                        kEdgeInc, lEdgeInc, blackStarts(grid), 1, garbage)
             done     == Append(cycles, [red |-> red.written, black |-> black.written])
         IN  IF black.fault THEN [val |-> black.val, cycles |-> done, fault |-> TRUE]
             ELSE gaussSeidel3DLoop(grid, gSwapGhosts3D(grid, black.val), rhoVal,
                                    nCycles - 1, done, garbage)

gaussSeidel3D(grid, phiVal, rhoVal, nCycles, garbage) ==
    gaussSeidel3DLoop(grid, phiVal, rhoVal, nCycles, << >>, garbage)

MaxSweepCycles == 2

\* the even numbers of true nodes per axis
SweepSizes == {2, 4}

InitSweep ==
    /\ \E T \in [2..4 -> SweepSizes] : \E n \in 1..MaxSweepCycles :
       \E shape \in {"zero", "index"} : \E start \in {0, 8} :
          LET grid == GridOf([d \in 1..4 |-> IF d = 1 THEN 1 ELSE T[d]],
                             [i \in 1..8 |-> IF i \in {1, 5} THEN 0 ELSE 1])
              N    == sizeProdOf(grid, 4)
          IN  kernel = [called |-> "none", fn |-> "gaussSeidel3D", grid |-> grid,
                        nCycles |-> n,
                        phi |-> [g \in 0..(N - 1) |-> start],
                        rho |-> [g \in 0..(N - 1) |->
                                    IF shape = "zero" THEN 0 ELSE 8 * (g % 5)],
                        cycles |-> << >>]
    /\ vcycle = [kind |-> "idle"]
    /\ fields = [tracked |-> FALSE]
    /\ AlgIdle
    /\ MGIdle
    /\ MigIdle

CallGaussSeidel3D ==
    /\ kernel.called = "none"
    /\ kernel.fn = "gaussSeidel3D"
    /\ \E garbage \in Garbages :
          LET r == gaussSeidel3D(kernel.grid, kernel.phi, kernel.rho, kernel.nCycles, garbage)
          IN  kernel' = [kernel EXCEPT !.called = IF r.fault THEN "fault"
                                                  ELSE "gaussSeidel3D",
                                       !.phi = r.val, !.cycles = r.cycles]
    /\ KernelIdleOthers

NextSweep ==
    CallGaussSeidel3D

SpecSweep == InitSweep /\ [][NextSweep]_vars

\* element g is a true (interior) node of the rank-4 grid
isInterior3D(grid, g) ==
    /\ g >= 0
    /\ g < sizeProdOf(grid, 4)
    /\ \A d \in 1..3 :
          /\ coordOf(grid, g, d) >= grid.nGhostLayers[d + 1]
          /\ coordOf(grid, g, d) < grid.nGhostLayers[d + 1] + grid.trueSize[d + 1]

\* elements g and h are neighbours in the 7-point stencil
stencilNeighbors(grid, g, h) ==
    \E d \in 1..3 : h = g + sizeProdOf(grid, d) \/ h = g - sizeProdOf(grid, d)

elementsOf(seq) ==
    {seq[i] : i \in 1..Len(seq)}

timesIn(seq, g) ==
    Cardinality({i \in 1..Len(seq) : seq[i] = g})

\* C19 as stated: in every cycle of gaussSeidel3D on a grid with even
\* trueSize and one ghost layer per side, the red pass and the black pass
\* store to disjoint sets of nodes, no two nodes of the same colour are
\* stencil neighbours, the two passes together store to every interior node
\* exactly once, and no ghost node is stored to by a sweep.
C19_RedBlackPartition ==
    kernel.called = "gaussSeidel3D" =>
        \A c \in 1..Len(kernel.cycles) :
            LET red   == kernel.cycles[c].red
                black == kernel.cycles[c].black
            IN  /\ elementsOf(red) \cap elementsOf(black) = {}
                /\ \A g, h \in elementsOf(red) : ~stencilNeighbors(kernel.grid, g, h)
                /\ \A g, h \in elementsOf(black) : ~stencilNeighbors(kernel.grid, g, h)
                /\ \A g \in 0..(sizeProdOf(kernel.grid, 4) - 1) :
                      IF isInterior3D(kernel.grid, g)
                      THEN timesIn(red \o black, g) = 1
                      ELSE timesIn(red \o black, g) = 0

====
